---- MODULE Spec2Model ----
(***************************************************************************)
(* AutoFlow provisioning pipeline: the GitHub service functions            *)
(* (createWorkflowFile, setRepositoryVariable, setRepositorySecret) and    *)
(* the step orchestration of PipelineConfigurator (runSteps, handleRetry,  *)
(* the completion effect), modelled as state machines.                     *)
(***************************************************************************)
EXTENDS Integers, Sequences, FiniteSets, TLC

VARIABLES
    remoteFile,   \* content of the workflow file on the remote branch, or NoFile
    cwf,          \* the createWorkflowFile call in progress
    remoteVars,   \* repository variables on the remote: name -> value or Absent
    srv,          \* the setRepositoryVariable call in progress
    remoteSecrets,\* repository secrets on the remote: name -> sealed value or Absent
    sec,          \* the setRepositorySecret / executeSecretsStep call in progress
    \* PipelineConfigurator (one mounted instance) and its parent Dashboard
    mode,               \* prop: "create" or "edit"
    mounted,            \* Dashboard renders the configurator (configRepo is set)
    selectedTemplateId,
    generatedYaml,
    requiredVariables,  \* names of the required variables
    requiredSecrets,    \* names of the required secrets
    variableValues,     \* name -> value, Absent for a key the object lacks
    secretValues,       \* name -> value, Absent for a key the object lacks
    isLoading,
    isInitialLoading,
    isCommitting,
    commitProgress,
    commitError,
    runs,               \* the runSteps executions: slot -> position and closure
    effectDue,          \* a render changed a dependency of the completion effect
    signals,            \* calls of onPipelineConfigured since the last (re)start
    closeTimer,         \* a setTimeout(onClose, 1500) is pending
    \* Status, deployment, command and log functions
    glr,                \* the getLatestWorkflowRun call in progress
    gdr,                \* the getDeploymentsForRepo lookup of one deployment
    cli,                \* the /api/run-cli request being handled
    lv,                 \* the LogViewer instance and its polling timer
    cwfLog,             \* createWorkflowFile calls made in sequence: the completed ones
    orch,               \* handleConfirmSetup repeated: one runSteps at a time over the service functions
    gdc,                \* getDeploymentsForRepo: one call over the deployments of a repository
    enc,                \* the encrypt endpoint: the request handled last and its response
    gen,                \* generateWorkflow: one call, its timer and the clock
    par,                \* executeVariablesStep / executeSecretsStep: the requests of one Promise.all, over retries
    wiz                 \* DeploymentWizard: the state of the component and its requests

fileVars == <<remoteFile, cwf>>
varVars == <<remoteVars, srv>>
secVars == <<remoteSecrets, sec>>
cfgVars == <<mode, mounted, selectedTemplateId, generatedYaml, requiredVariables,
             requiredSecrets, variableValues, secretValues, isLoading,
             isInitialLoading, isCommitting, commitProgress, commitError, runs,
             effectDue, signals, closeTimer>>
toolVars == <<glr, gdr, cli, lv, cwfLog, orch, gdc, enc, gen, par, wiz>>
vars == <<remoteFile, cwf, remoteVars, srv, remoteSecrets, sec, cfgVars, toolVars>>

(***************************************************************************)
(* Text.  JavaScript strings are sequences of one-character strings, so    *)
(* that String.prototype.includes is a real substring search.              *)
(***************************************************************************)
Digit(d) == CASE d = 0 -> "0" [] d = 1 -> "1" [] d = 2 -> "2" [] d = 3 -> "3"
              [] d = 4 -> "4" [] d = 5 -> "5" [] d = 6 -> "6" [] d = 7 -> "7"
              [] d = 8 -> "8" [] d = 9 -> "9"

\* `${response.status}` of a three-digit HTTP status
StatusString(status) ==
    <<Digit(status \div 100), Digit((status \div 10) % 10), Digit(status % 10)>>

\* haystack.includes(needle)
Includes(haystack, needle) ==
    \E i \in 1..(Len(haystack) - Len(needle) + 1) :
        SubSeq(haystack, i, i + Len(needle) - 1) = needle

\* response.statusText: the reason phrase of the status line
StatusText(status) ==
    CASE status = 401 -> <<"U","n","a","u","t","h","o","r","i","z","e","d">>
      [] status = 403 -> <<"F","o","r","b","i","d","d","e","n">>
      [] status = 404 -> <<"N","o","t"," ","F","o","u","n","d">>
      [] status = 409 -> <<"C","o","n","f","l","i","c","t">>
      [] status = 422 -> <<"U","n","p","r","o","c","e","s","s","a","b","l","e">>
      [] status = 500 -> <<"S","e","r","v","e","r"," ","E","r","r","o","r">>

\* The message of the Error thrown by githubApiRequest for a non-ok response:
\* `GitHub API Error: ${status} ${statusText} - ${errorData.message || ...}`
ApiErrorMessage(status, bodyMessage) ==
    <<"G","i","t","H","u","b"," ","A","P","I"," ","E","r","r","o","r",":"," ">>
    \o StatusString(status) \o <<" ">> \o StatusText(status) \o <<" ","-"," ">>
    \o (IF bodyMessage # <<>> THEN bodyMessage
        ELSE <<"C","h","e","c","k"," ","s","c","o","p","e","s">>)

\* error instanceof Error && error.message.includes('404')
IsNotFoundError(message) == Includes(message, <<"4","0","4">>)

\* Bodies of error responses the remote sends (errorData.message)
MsgNotFound == <<"N","o","t"," ","F","o","u","n","d">>
MsgBadCredentials == <<"B","a","d"," ","c","r","e","d","s">>
MsgRateLimit == <<"l","i","m","i","t"," ","f","o","r"," ","I","D"," ","1","4","0","4","9">>
BodyMessages == {MsgNotFound, MsgBadCredentials, MsgRateLimit}

\* Statuses with which the remote can fail a request whose target exists
FailStatuses == {401, 403, 422, 500}

NoFile == <<>>
NoSha == <<>>
NoError == <<>>

(***************************************************************************)
(* Repository contents API and createWorkflowFile                          *)
(***************************************************************************)
NumContents == 2
Contents == {<<i>> : i \in 1..NumContents}

\* btoa(unescape(encodeURIComponent(content))), and the remote's decoding
EncodeContent(content) == <<"base64">> \o content
DecodeContent(encoded) == Tail(encoded)

\* The blob sha the contents API reports for a file
ShaOf(file) == IF file = NoFile THEN NoSha ELSE <<"sha">> \o file

\* if (existingFile && existingFile.sha) body.sha = existingFile.sha
CapturedShaNone(file) == NoSha
CapturedSha(file) == ShaOf(file)

\* The sha the PUT carries: the captured one, whatever the remote holds now
PutShaFresh(bodySha, currentSha) == currentSha
PutSha(bodySha, currentSha) == bodySha

\* The contents API accepts a PUT only when the sha sent names the blob it
\* holds (no sha for a file that does not exist)
RemoteAcceptsPut(file, sha) == sha = ShaOf(file)
RemoteRejectStatus(file, sha) == IF sha = NoSha THEN 422 ELSE 409

CwfIdle == [pc |-> "idle", content |-> NoFile, sha |-> NoSha, gotSha |-> FALSE,
            putSent |-> FALSE, stale |-> FALSE, error |-> NoError, getStatus |-> 0]


\* createWorkflowFile(token, owner, repo, branch, fileName, content, message)
CwfCall(content) ==
    /\ cwf.pc = "idle"
    /\ cwf' = [CwfIdle EXCEPT !.pc = "get", !.content = content]
    /\ UNCHANGED remoteFile

\* The GET of the file answers 200 with the sha
CwfGetOk ==
    /\ cwf.pc = "get"
    /\ remoteFile # NoFile
    /\ cwf' = [cwf EXCEPT !.pc = "put", !.sha = CapturedSha(remoteFile),
                          !.gotSha = TRUE, !.getStatus = 200]
    /\ UNCHANGED remoteFile

\* The GET fails: 404 when the file is absent, or another failure
CwfGetFail(status, body) ==
    /\ cwf.pc = "get"
    /\ \/ status = 404 /\ remoteFile = NoFile /\ body = MsgNotFound
       \/ status \in FailStatuses
    /\ LET msg == ApiErrorMessage(status, body) IN
       cwf' = IF IsNotFoundError(msg)
              THEN [cwf EXCEPT !.pc = "put", !.getStatus = status]
              ELSE [cwf EXCEPT !.pc = "threw", !.error = msg, !.getStatus = status]
    /\ UNCHANGED remoteFile

\* The PUT reaches the remote, which accepts or rejects it by the sha
CwfPut ==
    /\ cwf.pc = "put"
    /\ LET sent == PutSha(cwf.sha, ShaOf(remoteFile)) IN
       IF RemoteAcceptsPut(remoteFile, sent)
       THEN /\ remoteFile' = DecodeContent(EncodeContent(cwf.content))
            /\ cwf' = [cwf EXCEPT !.pc = "done", !.putSent = TRUE,
                                  !.stale = (ShaOf(remoteFile) # cwf.sha)]
       ELSE /\ remoteFile' = remoteFile
            /\ cwf' = [cwf EXCEPT !.pc = "threw", !.putSent = TRUE,
                                  !.stale = (ShaOf(remoteFile) # cwf.sha),
                                  !.error = ApiErrorMessage(
                                      RemoteRejectStatus(remoteFile, sent),
                                      MsgBadCredentials)]

\* The PUT fails for a reason of its own (credentials, server error)
CwfPutFail(status, body) ==
    /\ cwf.pc = "put"
    /\ status \in FailStatuses
    /\ cwf' = [cwf EXCEPT !.pc = "threw", !.putSent = TRUE,
                          !.stale = (ShaOf(remoteFile) # cwf.sha),
                          !.error = ApiErrorMessage(status, body)]
    /\ UNCHANGED remoteFile

\* The promise settles and the caller may call again
CwfReturn ==
    /\ cwf.pc \in {"done", "threw"}
    /\ cwf' = CwfIdle
    /\ UNCHANGED remoteFile

\* Another writer commits to the same path, or deletes it
OtherWriterCommit(content) ==
    /\ remoteFile # content
    /\ remoteFile' = content
    /\ UNCHANGED cwf

OtherWriterDelete ==
    /\ remoteFile # NoFile
    /\ remoteFile' = NoFile
    /\ UNCHANGED cwf

NextFile ==
    \/ \E c \in Contents : CwfCall(c) /\ UNCHANGED <<varVars, secVars, cfgVars, toolVars>>
    \/ CwfGetOk /\ UNCHANGED <<varVars, secVars, cfgVars, toolVars>>
    \/ \E s \in FailStatuses \cup {404}, b \in BodyMessages :
          CwfGetFail(s, b) /\ UNCHANGED <<varVars, secVars, cfgVars, toolVars>>
    \/ CwfPut /\ UNCHANGED <<varVars, secVars, cfgVars, toolVars>>
    \/ \E s \in FailStatuses, b \in BodyMessages :
          CwfPutFail(s, b) /\ UNCHANGED <<varVars, secVars, cfgVars, toolVars>>
    \/ CwfReturn /\ UNCHANGED <<varVars, secVars, cfgVars, toolVars>>
    \/ \E c \in Contents : OtherWriterCommit(c) /\ UNCHANGED <<varVars, secVars, cfgVars, toolVars>>
    \/ OtherWriterDelete /\ UNCHANGED <<varVars, secVars, cfgVars, toolVars>>

(***************************************************************************)
(* Repository variables API and setRepositoryVariable                      *)
(***************************************************************************)
NumVars == 1
VarNames == 1..NumVars
Absent == <<"Absent">>

\* Values a variable or a secret is given ("" is the empty input)
EmptyString == <<>>
ValueA == <<"2","0">>
ValueB == <<"a","b","c">>
Values == {ValueA, ValueB}

SrvIdle == [pc |-> "idle", name |-> 0, value |-> EmptyString, existed |-> FALSE,
            patches |-> 0, posts |-> 0, patchStatus |-> 0, error |-> NoError]


\* What the catch block of setRepositoryVariable does with a failed PATCH
PatchFailedSwallow(message) == IF IsNotFoundError(message) THEN "done" ELSE "threw"
PatchFailed(message) == IF IsNotFoundError(message) THEN "post" ELSE "threw"

\* setRepositoryVariable(token, owner, repo, variableName, value)
SrvCall(name, value) ==
    /\ srv.pc = "idle"
    /\ srv' = [SrvIdle EXCEPT !.pc = "patch", !.name = name, !.value = value,
                              !.existed = (remoteVars[name] # Absent)]
    /\ UNCHANGED remoteVars

\* PATCH /actions/variables/{name} answers 204
SrvPatchOk ==
    /\ srv.pc = "patch"
    /\ remoteVars[srv.name] # Absent
    /\ remoteVars' = [remoteVars EXCEPT ![srv.name] = srv.value]
    /\ srv' = [srv EXCEPT !.pc = "done", !.patches = @ + 1]

\* The PATCH fails: 404 when the variable is absent, or another failure
SrvPatchFail(status, body) ==
    /\ srv.pc = "patch"
    /\ \/ status = 404 /\ remoteVars[srv.name] = Absent /\ body = MsgNotFound
       \/ status \in FailStatuses
    /\ LET msg == ApiErrorMessage(status, body) IN
       srv' = [srv EXCEPT !.pc = PatchFailed(msg), !.patches = @ + 1,
                          !.patchStatus = status,
                          !.error = IF PatchFailed(msg) = "threw" THEN msg ELSE NoError]
    /\ UNCHANGED remoteVars

\* POST /actions/variables answers 201
SrvPostOk ==
    /\ srv.pc = "post"
    /\ remoteVars[srv.name] = Absent
    /\ remoteVars' = [remoteVars EXCEPT ![srv.name] = srv.value]
    /\ srv' = [srv EXCEPT !.pc = "done", !.posts = @ + 1]

\* The POST fails: 409 when the variable already exists, or another failure
SrvPostFail(status, body) ==
    /\ srv.pc = "post"
    /\ \/ status = 409 /\ remoteVars[srv.name] # Absent
       \/ status \in FailStatuses
    /\ srv' = [srv EXCEPT !.pc = "threw", !.posts = @ + 1,
                          !.error = ApiErrorMessage(status, body)]
    /\ UNCHANGED remoteVars

SrvReturn ==
    /\ srv.pc \in {"done", "threw"}
    /\ srv' = SrvIdle
    /\ UNCHANGED remoteVars

\* The variable is removed on the remote while no call is running
VariableDeleted(name) ==
    /\ srv.pc = "idle"
    /\ remoteVars[name] # Absent
    /\ remoteVars' = [remoteVars EXCEPT ![name] = Absent]
    /\ UNCHANGED srv

NextVar ==
    \/ \E n \in VarNames, v \in Values : SrvCall(n, v) /\ UNCHANGED <<fileVars, secVars, cfgVars, toolVars>>
    \/ SrvPatchOk /\ UNCHANGED <<fileVars, secVars, cfgVars, toolVars>>
    \/ \E s \in FailStatuses \cup {404}, b \in BodyMessages :
          SrvPatchFail(s, b) /\ UNCHANGED <<fileVars, secVars, cfgVars, toolVars>>
    \/ SrvPostOk /\ UNCHANGED <<fileVars, secVars, cfgVars, toolVars>>
    \/ \E s \in FailStatuses \cup {409}, b \in BodyMessages :
          SrvPostFail(s, b) /\ UNCHANGED <<fileVars, secVars, cfgVars, toolVars>>
    \/ SrvReturn /\ UNCHANGED <<fileVars, secVars, cfgVars, toolVars>>
    \/ \E n \in VarNames : VariableDeleted(n) /\ UNCHANGED <<fileVars, secVars, cfgVars, toolVars>>

(***************************************************************************)
(* Repository secrets API, the sealing endpoint and setRepositorySecret    *)
(***************************************************************************)
NumSecrets == 1
SecretNames == 1..NumSecrets
NumKeys == 2
KeyIds == 1..NumKeys

\* crypto_box_seal(value, publicKey) as returned by the encrypt endpoint
Seal(key, value) == <<"sealed", key, value>>

\* JavaScript truthiness of a string: only "" is falsy
Truthy(value) == value # EmptyString

\* setRepositorySecret: if (!value) return;
IsEmptySecretNever(value) == FALSE
IsEmptySecret(value) == ~Truthy(value)

\* executeSecretsStep: if (value) setRepositorySecret(...) else Promise.resolve()
StepAppliesSecret(value) == Truthy(value)

SecIdle == [pc |-> "idle", value |-> EmptyString, via |-> "none", before |-> Absent,
            keyId |-> 0, cipher |-> Absent, keyFetches |-> 0, sealCalls |-> 0,
            puts |-> 0]

\* The state of a setRepositorySecret call right after it is entered
SecEnteredCachedKey(name, value, via) ==
    [SecIdle EXCEPT !.pc = IF IsEmptySecret(value) THEN "done" ELSE "seal",
                    !.value = value, !.via = via, !.before = remoteSecrets[name],
                    !.keyId = 1]
SecEntered(name, value, via) ==
    [SecIdle EXCEPT !.pc = IF IsEmptySecret(value) THEN "done" ELSE "key",
                    !.value = value, !.via = via, !.before = remoteSecrets[name]]

\* The state of one entry of secretValues right after executeSecretsStep mapped it
StepEntered(name, value) ==
    IF StepAppliesSecret(value)
    THEN SecEntered(name, value, "step")
    ELSE [SecIdle EXCEPT !.pc = "done", !.value = value, !.via = "step",
                         !.before = remoteSecrets[name]]


\* setRepositorySecret(token, owner, repo, secretName, value) called directly
SetRepositorySecret(name, value) ==
    /\ sec[name].pc = "idle"
    /\ sec' = [sec EXCEPT ![name] = SecEntered(name, value, "direct")]
    /\ UNCHANGED remoteSecrets

\* executeSecretsStep over the entries of secretValues
ExecuteSecretsStep(values) ==
    /\ \A n \in SecretNames : sec[n].pc = "idle"
    /\ sec' = [n \in SecretNames |-> StepEntered(n, values[n])]
    /\ UNCHANGED remoteSecrets

\* getRepositoryPublicKey answers with the key the repository holds now
SecretKeyOk(name, key) ==
    /\ sec[name].pc = "key"
    /\ sec' = [sec EXCEPT ![name].pc = "seal", ![name].keyId = key,
                          ![name].keyFetches = @ + 1]
    /\ UNCHANGED remoteSecrets

\* The encrypt endpoint answers 200 with the sealed value
SecretSealOk(name) ==
    /\ sec[name].pc = "seal"
    /\ sec' = [sec EXCEPT ![name].pc = "put",
                          ![name].cipher = Seal(sec[name].keyId, sec[name].value),
                          ![name].sealCalls = @ + 1]
    /\ UNCHANGED remoteSecrets

\* body: JSON.stringify({ encrypted_value: encryptedValue, key_id: key_id })
SecretPutBody(call) == [encrypted_value |-> call.cipher, key_id |-> call.keyId]

\* PUT /actions/secrets/{name} with encrypted_value and key_id
SecretPutOk(name) ==
    /\ sec[name].pc = "put"
    /\ remoteSecrets' = [remoteSecrets EXCEPT
                            ![name] = SecretPutBody(sec[name]).encrypted_value]
    /\ sec' = [sec EXCEPT ![name].pc = "done", ![name].puts = @ + 1]

\* Any of the three requests fails and the call throws
SecretRequestFail(name) ==
    /\ sec[name].pc \in {"key", "seal", "put"}
    /\ sec' = [sec EXCEPT ![name].pc = "threw",
                          ![name].keyFetches = @ + (IF sec[name].pc = "key" THEN 1 ELSE 0),
                          ![name].sealCalls = @ + (IF sec[name].pc = "seal" THEN 1 ELSE 0),
                          ![name].puts = @ + (IF sec[name].pc = "put" THEN 1 ELSE 0)]
    /\ UNCHANGED remoteSecrets

SecretReturn(name) ==
    /\ sec[name].pc \in {"done", "threw"}
    /\ sec' = [sec EXCEPT ![name] = SecIdle]
    /\ UNCHANGED remoteSecrets

NextSec ==
    \/ \E n \in SecretNames, v \in Values \cup {EmptyString} :
          SetRepositorySecret(n, v) /\ UNCHANGED <<fileVars, varVars, cfgVars, toolVars>>
    \/ \E sv \in [SecretNames -> Values \cup {EmptyString}] :
          ExecuteSecretsStep(sv) /\ UNCHANGED <<fileVars, varVars, cfgVars, toolVars>>
    \/ \E n \in SecretNames, k \in KeyIds :
          SecretKeyOk(n, k) /\ UNCHANGED <<fileVars, varVars, cfgVars, toolVars>>
    \/ \E n \in SecretNames : SecretSealOk(n) /\ UNCHANGED <<fileVars, varVars, cfgVars, toolVars>>
    \/ \E n \in SecretNames : SecretPutOk(n) /\ UNCHANGED <<fileVars, varVars, cfgVars, toolVars>>
    \/ \E n \in SecretNames : SecretRequestFail(n) /\ UNCHANGED <<fileVars, varVars, cfgVars, toolVars>>
    \/ \E n \in SecretNames : SecretReturn(n) /\ UNCHANGED <<fileVars, varVars, cfgVars, toolVars>>

(***************************************************************************)
(* getLatestWorkflowRun: the status of the latest workflow run             *)
(***************************************************************************)
NumRunIds == 2
WorkflowRunIds == 1..NumRunIds

\* The status and conclusion texts the runs API may answer with; the last two
\* of each are texts the GitHubWorkflowRun interface does not list
ExternalStatuses == {"queued", "in_progress", "completed", "requested", "waiting"}
Conclusions ==
    {"success", "failure", "cancelled", "skipped", "timed_out", "neutral",
     "action_required", "null", "stale", "startup_failure"}

\* The status computed from latestRun.status and latestRun.conclusion, as a
\* member of the enum WorkflowRunStatus
DerivedStatusOfStatusOnly(status, conclusion) ==
    IF status = "in_progress" THEN "InProgress"
    ELSE IF status = "queued" THEN "Queued"
    ELSE IF status = "completed" THEN "Completed"
    ELSE "Unknown"
DerivedStatus(status, conclusion) ==
    IF status = "in_progress" THEN "InProgress"
    ELSE IF status = "queued" THEN "Queued"
    ELSE IF status = "completed" THEN
        CASE conclusion = "success" -> "Success"
          [] conclusion = "failure" -> "Failure"
          [] conclusion = "cancelled" -> "Cancelled"
          [] conclusion = "skipped" -> "Skipped"
          [] conclusion = "timed_out" -> "TimedOut"
          [] conclusion = "neutral" -> "Neutral"
          [] conclusion = "action_required" -> "ActionRequired"
          [] OTHER -> "Completed"
    ELSE "Unknown"

\* The value null returned for no run or a failed request
NullRun == [status |-> "null", runId |-> 0]

GlrIdle == [pc |-> "idle", status |-> "none", conclusion |-> "none",
            result |-> NullRun]

\* getLatestWorkflowRun(token, owner, repo) sends its request
GlrCall ==
    /\ glr.pc = "idle"
    /\ glr' = [glr EXCEPT !.pc = "request"]

\* The runs API answers with one run
GlrResponse(status, conclusion, id) ==
    /\ glr.pc = "request"
    /\ glr' = [pc |-> "returned", status |-> status, conclusion |-> conclusion,
               result |-> [status |-> DerivedStatus(status, conclusion),
                           runId |-> id]]

\* The runs API answers with an empty list of runs
GlrEmptyResponse ==
    /\ glr.pc = "request"
    /\ glr' = [glr EXCEPT !.pc = "returned", !.result = NullRun]

\* The request fails: the catch block returns null
GlrRequestFail(status, body) ==
    /\ glr.pc = "request"
    /\ glr' = [glr EXCEPT !.pc = "returned", !.status = "failed",
                          !.result = NullRun]

NextRunStatus ==
    \/ GlrCall /\ UNCHANGED <<fileVars, varVars, secVars, cfgVars, gdr, cli, lv, cwfLog, orch, gdc, enc, gen, par, wiz>>
    \/ \E s \in ExternalStatuses, c \in Conclusions, id \in WorkflowRunIds :
          GlrResponse(s, c, id) /\ UNCHANGED <<fileVars, varVars, secVars, cfgVars, gdr, cli, lv, cwfLog, orch, gdc, enc, gen, par, wiz>>
    \/ GlrEmptyResponse /\ UNCHANGED <<fileVars, varVars, secVars, cfgVars, gdr, cli, lv, cwfLog, orch, gdc, enc, gen, par, wiz>>
    \/ \E s \in FailStatuses \cup {404}, b \in BodyMessages :
          GlrRequestFail(s, b) /\ UNCHANGED <<fileVars, varVars, secVars, cfgVars, gdr, cli, lv, cwfLog, orch, gdc, enc, gen, par, wiz>>

(***************************************************************************)
(* getDeploymentsForRepo: status and workflow run of one deployment        *)
(***************************************************************************)
NumShas == 2
MaxRunList == 2
CommitShas == 1..NumShas

\* dep.sha of a deployment without a commit sha (falsy)
EmptySha == 0

\* runId of a deployment no run was found for
Undefined == 0

\* The workflow runs of the repository, most recent first
RunRecords == [id : WorkflowRunIds, head_sha : CommitShas]
RunLists == UNION {[1..n -> RunRecords] : n \in 0..MaxRunList}

\* GET /actions/runs?head_sha=<sha>&per_page=1 as the API answers it
RunsResponseUnfiltered(allRuns, sha) ==
    IF allRuns = <<>> THEN <<>> ELSE <<Head(allRuns)>>
RunsResponse(allRuns, sha) ==
    LET matching == SelectSeq(allRuns, LAMBDA r : r.head_sha = sha)
    IN  IF matching = <<>> THEN <<>> ELSE <<Head(matching)>>

\* runsResponse.workflow_runs.length > 0 ? workflow_runs[0].id : undefined
RunIdOf(workflowRuns) ==
    IF Len(workflowRuns) > 0 THEN workflowRuns[1].id ELSE Undefined

GdrIdle == [pc |-> "idle", sha |-> EmptySha, allRuns |-> <<>>,
            listed |-> FALSE, response |-> <<>>, runId |-> Undefined]

\* The map callback of getDeploymentsForRepo requests the statuses
GdrCall ==
    /\ gdr.pc = "called"
    /\ gdr' = [gdr EXCEPT !.pc = "statuses"]

\* The statuses request resolves; the runs are looked up if dep.sha is set
GdrStatusesOk ==
    /\ gdr.pc = "statuses"
    /\ gdr' = [gdr EXCEPT !.pc = IF gdr.sha # EmptySha THEN "runs" ELSE "returned"]

\* The statuses request fails: the deployment is dropped from the result
GdrStatusesFail ==
    /\ gdr.pc = "statuses"
    /\ gdr' = [gdr EXCEPT !.pc = "dropped"]

\* The runs request resolves
GdrRunsOk ==
    /\ gdr.pc = "runs"
    /\ gdr' = [gdr EXCEPT !.pc = "returned", !.listed = TRUE,
                          !.response = RunsResponse(gdr.allRuns, gdr.sha),
                          !.runId = RunIdOf(RunsResponse(gdr.allRuns, gdr.sha))]

\* The runs request fails: the inner catch warns and runId stays undefined
GdrRunsFail ==
    /\ gdr.pc = "runs"
    /\ gdr' = [gdr EXCEPT !.pc = "returned"]

NextDeployments ==
    \/ GdrCall /\ UNCHANGED <<fileVars, varVars, secVars, cfgVars, glr, cli, lv, cwfLog, orch, gdc, enc, gen, par, wiz>>
    \/ GdrStatusesOk /\ UNCHANGED <<fileVars, varVars, secVars, cfgVars, glr, cli, lv, cwfLog, orch, gdc, enc, gen, par, wiz>>
    \/ GdrStatusesFail /\ UNCHANGED <<fileVars, varVars, secVars, cfgVars, glr, cli, lv, cwfLog, orch, gdc, enc, gen, par, wiz>>
    \/ GdrRunsOk /\ UNCHANGED <<fileVars, varVars, secVars, cfgVars, glr, cli, lv, cwfLog, orch, gdc, enc, gen, par, wiz>>
    \/ GdrRunsFail /\ UNCHANGED <<fileVars, varVars, secVars, cfgVars, glr, cli, lv, cwfLog, orch, gdc, enc, gen, par, wiz>>

(***************************************************************************)
(* /api/run-cli: the restricted command handler                            *)
(***************************************************************************)
MaxCommandLen == 4

\* A text is a sequence of atoms: the blank, or a run of non-blank
\* characters; adjacent runs without a blank between them form one word
Blank == " "
Atoms == {Blank, "vercel", "railway", "projects", "list", "logs", "rm"}
CommandTexts == UNION {[1..n -> Atoms] : n \in 0..MaxCommandLen}

\* A value of req.body that is not a string (undefined, a number, an object)
NotAString == <<"<not a string>">>
TokenTexts == {<<>>, <<Blank>>, <<"tok">>}
Methods == {"POST", "GET"}

IsString(value) == value # NotAString

RECURSIVE TrimStart(_)
TrimStart(text) ==
    IF text # <<>> /\ Head(text) = Blank THEN TrimStart(Tail(text)) ELSE text

RECURSIVE TrimEnd(_)
TrimEnd(text) ==
    IF text # <<>> /\ text[Len(text)] = Blank
    THEN TrimEnd(SubSeq(text, 1, Len(text) - 1)) ELSE text

\* text.trim()
Trim(text) == TrimEnd(TrimStart(text))

\* text.split(/\s+/) of a trimmed text: the words, each the atoms it is made of
RECURSIVE SplitWords(_, _, _)
SplitWords(text, word, words) ==
    IF text = <<>> THEN (IF word = <<>> THEN words ELSE Append(words, word))
    ELSE IF Head(text) = Blank
         THEN SplitWords(Tail(text), <<>>,
                         IF word = <<>> THEN words ELSE Append(words, word))
         ELSE SplitWords(Tail(text), Append(word, Head(text)), words)

\* command.trim().split(/\s+/); ''.split(/\s+/) is ['']
Parts(command) ==
    IF Trim(command) = <<>> THEN <<<<>>>> ELSE SplitWords(Trim(command), <<>>, <<>>)

COMMAND_ALLOWLIST ==
    [vercel |-> << <<"projects", "list">>, <<"domains", "ls">>, <<"logs">>,
                   <<"deployments", "ls">> >>,
     railway |-> << <<"projects">>, <<"services">>, <<"logs">>, <<"status">> >>]

\* COMMAND_ALLOWLIST[cli].some(parts => parts.every((part, index) => args[index] === part))
IsAllowedAny(tool, args) == TRUE
IsAllowed(tool, args) ==
    \E k \in 1..Len(COMMAND_ALLOWLIST[tool]) :
       \A index \in 1..Len(COMMAND_ALLOWLIST[tool][k]) :
          /\ index <= Len(args)
          /\ args[index] = <<COMMAND_ALLOWLIST[tool][k][index]>>

\* No call of spawn(executablePath, args, { env })
NoChild == [tool |-> "none", args |-> <<>>, envToken |-> NotAString]

\* The handler up to its response or to spawn(): status 0 is no response yet
Handled(method, command, token) ==
    IF method # "POST" THEN [status |-> 405, child |-> NoChild]
    ELSE IF ~IsString(command) \/ Trim(command) = <<>>
         THEN [status |-> 400, child |-> NoChild]
    ELSE IF ~IsString(token) \/ Trim(token) = <<>>
         THEN [status |-> 400, child |-> NoChild]
    ELSE LET parts == Parts(command)
             args == Tail(parts)
         IN  IF parts[1] # <<"vercel">> /\ parts[1] # <<"railway">>
             THEN [status |-> 400, child |-> NoChild]
             ELSE IF ~IsAllowed(parts[1][1], args)
             THEN [status |-> 403, child |-> NoChild]
             ELSE [status |-> 0,
                   child |-> [tool |-> parts[1][1], args |-> args,
                              envToken |-> token]]

CliIdle == [pc |-> "idle", method |-> "GET", command |-> NotAString,
            token |-> NotAString, status |-> 0, child |-> NoChild]

\* handler(req, res) runs up to its rejection or to the spawn of the child
CliHandle ==
    /\ cli.pc = "request"
    /\ LET h == Handled(cli.method, cli.command, cli.token) IN
       cli' = [cli EXCEPT !.pc = IF h.status = 0 THEN "running" ELSE "responded",
                          !.status = h.status, !.child = h.child]

\* The child closes: 200 with its output, whatever the exit code
CliChildClose ==
    /\ cli.pc = "running"
    /\ cli' = [cli EXCEPT !.pc = "responded", !.status = 200]

\* spawn or the wait for the child throws: the catch block answers 500
CliSpawnError ==
    /\ cli.pc = "running"
    /\ cli' = [cli EXCEPT !.pc = "responded", !.status = 500]

NextCli ==
    \/ CliHandle /\ UNCHANGED <<fileVars, varVars, secVars, cfgVars, glr, gdr, lv, cwfLog, orch, gdc, enc, gen, par, wiz>>
    \/ CliChildClose /\ UNCHANGED <<fileVars, varVars, secVars, cfgVars, glr, gdr, lv, cwfLog, orch, gdc, enc, gen, par, wiz>>
    \/ CliSpawnError /\ UNCHANGED <<fileVars, varVars, secVars, cfgVars, glr, gdr, lv, cwfLog, orch, gdc, enc, gen, par, wiz>>

(***************************************************************************)
(* LogViewer: fetching and polling the logs of a deployment's run          *)
(***************************************************************************)
NumDeployments == 2
MaxFetches == 3
DeploymentIds == 1..NumDeployments

\* The enum DeploymentStatus
DeploymentStatuses == {"Success", "Failed", "InProgress", "Error", "Queued", "Pending"}

\* isPolling of the polling effect
IsPolling(status) == status = "InProgress" \/ status = "Queued"

LvUnmounted == [mounted |-> FALSE, id |-> 0, status |-> "Pending", runId |-> Undefined,
                effectDue |-> FALSE, interval |-> FALSE, fetches |-> 0,
                lastFetch |-> "none", inflight |-> 0]

\* fetchAndSetLogs up to its await: a request only when deployment.runId is set
FetchAndSetLogs(view, cause) ==
    IF view.runId = Undefined \/ view.fetches >= MaxFetches THEN view
    ELSE [view EXCEPT !.fetches = @ + 1, !.lastFetch = cause, !.inflight = @ + 1]

\* The parent renders <LogViewer deployment={...} />
LvMount(id, status, runId) ==
    /\ ~lv.mounted
    /\ lv' = [LvUnmounted EXCEPT !.mounted = TRUE, !.id = id, !.status = status,
                                 !.runId = runId, !.effectDue = TRUE]

\* The effect on [deployment.id]: one fetch, and the interval when isPolling
LvEffect ==
    /\ lv.mounted /\ lv.effectDue
    /\ lv' = [FetchAndSetLogs(lv, "effect") EXCEPT !.effectDue = FALSE,
                                                  !.interval = IsPolling(lv.status)]

\* The 10 s interval fires
LvTick ==
    /\ lv.mounted /\ lv.interval /\ ~lv.effectDue
    /\ lv.runId # Undefined /\ lv.fetches < MaxFetches
    /\ lv' = FetchAndSetLogs(lv, "tick")

\* getWorkflowRunLogs resolves or rejects: logs or logError are set
LvFetchSettles ==
    /\ lv.inflight > 0
    /\ lv' = [lv EXCEPT !.inflight = @ - 1]

\* The parent passes the same deployment with a new status: no dependency of
\* the effect changes
LvStatusChange(status) ==
    /\ lv.mounted /\ ~lv.effectDue
    /\ status # lv.status
    /\ lv' = [lv EXCEPT !.status = status]

\* The parent passes another deployment: cleanup clears the interval and the
\* effect runs again
LvDeploymentChange(id, status, runId) ==
    /\ lv.mounted /\ ~lv.effectDue
    /\ id # lv.id
    /\ lv' = [lv EXCEPT !.id = id, !.status = status, !.runId = runId,
                        !.interval = FALSE, !.effectDue = TRUE]

\* onClose: the cleanup of the effect clears the interval
LvUnmount ==
    /\ lv.mounted /\ ~lv.effectDue
    /\ lv' = [lv EXCEPT !.mounted = FALSE, !.interval = FALSE]

NextLog ==
    \/ \E id \in DeploymentIds, s \in DeploymentStatuses, run \in {Undefined, 1} :
          LvMount(id, s, run) /\ UNCHANGED <<fileVars, varVars, secVars, cfgVars, glr, gdr, cli, cwfLog, orch, gdc, enc, gen, par, wiz>>
    \/ LvEffect /\ UNCHANGED <<fileVars, varVars, secVars, cfgVars, glr, gdr, cli, cwfLog, orch, gdc, enc, gen, par, wiz>>
    \/ LvTick /\ UNCHANGED <<fileVars, varVars, secVars, cfgVars, glr, gdr, cli, cwfLog, orch, gdc, enc, gen, par, wiz>>
    \/ LvFetchSettles /\ UNCHANGED <<fileVars, varVars, secVars, cfgVars, glr, gdr, cli, cwfLog, orch, gdc, enc, gen, par, wiz>>
    \/ \E s \in DeploymentStatuses :
          LvStatusChange(s) /\ UNCHANGED <<fileVars, varVars, secVars, cfgVars, glr, gdr, cli, cwfLog, orch, gdc, enc, gen, par, wiz>>
    \/ \E id \in DeploymentIds, s \in DeploymentStatuses, run \in {Undefined, 1} :
          LvDeploymentChange(id, s, run)
             /\ UNCHANGED <<fileVars, varVars, secVars, cfgVars, glr, gdr, cli, cwfLog, orch, gdc, enc, gen, par, wiz>>
    \/ LvUnmount /\ UNCHANGED <<fileVars, varVars, secVars, cfgVars, glr, gdr, cli, cwfLog, orch, gdc, enc, gen, par, wiz>>

(***************************************************************************)
(* createWorkflowFile called repeatedly by one caller, no other writer     *)
(***************************************************************************)
MaxCalls == 2

CwfLogEmpty == [calls |-> <<>>, failed |-> FALSE]

\* What a completed call leaves: its argument, its outcome, the sha its PUT
\* carried, whether a request of it failed for a reason of its own, and the
\* remote file when it settled
CompletedCall ==
    [content |-> cwf.content, pc |-> cwf.pc, sha |-> cwf.sha,
     failed |-> cwfLog.failed, remote |-> remoteFile]

\* createWorkflowFile is called after the previous call has settled
SeqCwfCall(content) ==
    /\ Len(cwfLog.calls) < MaxCalls
    /\ CwfCall(content)
    /\ UNCHANGED cwfLog

SeqCwfGetOk == CwfGetOk /\ UNCHANGED cwfLog

\* The GET answers 404 for an absent file
SeqCwfGetNotFound == CwfGetFail(404, MsgNotFound) /\ UNCHANGED cwfLog

\* The GET fails for a reason of its own
SeqCwfGetFail(status, body) ==
    /\ status # 404
    /\ CwfGetFail(status, body)
    /\ cwfLog' = [cwfLog EXCEPT !.failed = TRUE]

SeqCwfPut == CwfPut /\ UNCHANGED cwfLog

\* The PUT fails for a reason of its own
SeqCwfPutFail(status, body) ==
    /\ CwfPutFail(status, body)
    /\ cwfLog' = [cwfLog EXCEPT !.failed = TRUE]

SeqCwfReturn ==
    /\ CwfReturn
    /\ cwfLog' = [calls |-> Append(cwfLog.calls, CompletedCall), failed |-> FALSE]

NextFileSeq ==
    \/ \E c \in Contents :
          SeqCwfCall(c) /\ UNCHANGED <<varVars, secVars, cfgVars, glr, gdr, cli, lv, orch, gdc, enc, gen, par, wiz>>
    \/ SeqCwfGetOk /\ UNCHANGED <<varVars, secVars, cfgVars, glr, gdr, cli, lv, orch, gdc, enc, gen, par, wiz>>
    \/ SeqCwfGetNotFound /\ UNCHANGED <<varVars, secVars, cfgVars, glr, gdr, cli, lv, orch, gdc, enc, gen, par, wiz>>
    \/ \E s \in FailStatuses, b \in BodyMessages :
          SeqCwfGetFail(s, b) /\ UNCHANGED <<varVars, secVars, cfgVars, glr, gdr, cli, lv, orch, gdc, enc, gen, par, wiz>>
    \/ SeqCwfPut /\ UNCHANGED <<varVars, secVars, cfgVars, glr, gdr, cli, lv, orch, gdc, enc, gen, par, wiz>>
    \/ \E s \in FailStatuses, b \in BodyMessages :
          SeqCwfPutFail(s, b) /\ UNCHANGED <<varVars, secVars, cfgVars, glr, gdr, cli, lv, orch, gdc, enc, gen, par, wiz>>
    \/ SeqCwfReturn /\ UNCHANGED <<varVars, secVars, cfgVars, glr, gdr, cli, lv, orch, gdc, enc, gen, par, wiz>>

(***************************************************************************)
(* getDeploymentsForRepo: the call over all deployments of a repository    *)
(***************************************************************************)
NumDeps == 2
DepIds == 1..NumDeps

\* What the catch around the map callback makes of a failed statuses request
StatusesFailureRejects == "threw"
StatusesFailureDrops == "dropped"

\* Promise.all over the map callbacks, then filter(d => d !== null)
AllSettled(deps) == \A d \in DepIds : deps[d].pc \in {"returned", "dropped", "threw"}
CallOutcome(deps) ==
    IF \E d \in DepIds : deps[d].pc = "threw" THEN "rejected" ELSE "resolved"
CallResult(deps) == {d \in DepIds : deps[d].pc = "returned"}

DepIdle == [pc |-> "idle", sha |-> EmptySha, runId |-> Undefined,
            statusesFailed |-> FALSE, runsFailed |-> FALSE]
GdcIdle == [pc |-> "idle", allRuns |-> <<>>, deps |-> [d \in DepIds |-> DepIdle],
            listFailed |-> FALSE, result |-> {}]

\* getDeploymentsForRepo(token, owner, repo): the deployments list is requested
GdcCall(allRuns) ==
    /\ gdc.pc = "idle"
    /\ gdc' = [GdcIdle EXCEPT !.pc = "list", !.allRuns = allRuns]

\* The list resolves: the map callback of every deployment requests its statuses
GdcListOk(shas) ==
    /\ gdc.pc = "list"
    /\ gdc' = [gdc EXCEPT !.pc = "map",
                  !.deps = [d \in DepIds |->
                              [DepIdle EXCEPT !.pc = "statuses", !.sha = shas[d]]]]

\* The list request fails: the call rejects
GdcListFail ==
    /\ gdc.pc = "list"
    /\ gdc' = [gdc EXCEPT !.pc = "rejected", !.listFailed = TRUE]

GdcStatusesOk(d) ==
    /\ gdc.pc = "map" /\ gdc.deps[d].pc = "statuses"
    /\ gdc' = [gdc EXCEPT !.deps[d].pc =
                  IF gdc.deps[d].sha # EmptySha THEN "runs" ELSE "returned"]

GdcStatusesFail(d) ==
    /\ gdc.pc = "map" /\ gdc.deps[d].pc = "statuses"
    /\ gdc' = [gdc EXCEPT !.deps[d].pc = StatusesFailureDrops,
                          !.deps[d].statusesFailed = TRUE]

GdcRunsOk(d) ==
    /\ gdc.pc = "map" /\ gdc.deps[d].pc = "runs"
    /\ gdc' = [gdc EXCEPT !.deps[d].pc = "returned",
                  !.deps[d].runId = RunIdOf(RunsResponse(gdc.allRuns, gdc.deps[d].sha))]

GdcRunsFail(d) ==
    /\ gdc.pc = "map" /\ gdc.deps[d].pc = "runs"
    /\ gdc' = [gdc EXCEPT !.deps[d].pc = "returned", !.deps[d].runsFailed = TRUE]

\* await Promise.all(deploymentPromises) settles and the call returns
GdcSettle ==
    /\ gdc.pc = "map" /\ AllSettled(gdc.deps)
    /\ gdc' = [gdc EXCEPT !.pc = CallOutcome(gdc.deps),
                          !.result = IF CallOutcome(gdc.deps) = "resolved"
                                     THEN CallResult(gdc.deps) ELSE {}]

NextDeploymentList ==
    \/ \E l \in RunLists :
          GdcCall(l) /\ UNCHANGED <<fileVars, varVars, secVars, cfgVars, glr, gdr, cli, lv, cwfLog, orch, enc, gen, par, wiz>>
    \/ \E shas \in [DepIds -> CommitShas \cup {EmptySha}] :
          GdcListOk(shas) /\ UNCHANGED <<fileVars, varVars, secVars, cfgVars, glr, gdr, cli, lv, cwfLog, orch, enc, gen, par, wiz>>
    \/ GdcListFail /\ UNCHANGED <<fileVars, varVars, secVars, cfgVars, glr, gdr, cli, lv, cwfLog, orch, enc, gen, par, wiz>>
    \/ \E d \in DepIds :
          GdcStatusesOk(d) /\ UNCHANGED <<fileVars, varVars, secVars, cfgVars, glr, gdr, cli, lv, cwfLog, orch, enc, gen, par, wiz>>
    \/ \E d \in DepIds :
          GdcStatusesFail(d) /\ UNCHANGED <<fileVars, varVars, secVars, cfgVars, glr, gdr, cli, lv, cwfLog, orch, enc, gen, par, wiz>>
    \/ \E d \in DepIds :
          GdcRunsOk(d) /\ UNCHANGED <<fileVars, varVars, secVars, cfgVars, glr, gdr, cli, lv, cwfLog, orch, enc, gen, par, wiz>>
    \/ \E d \in DepIds :
          GdcRunsFail(d) /\ UNCHANGED <<fileVars, varVars, secVars, cfgVars, glr, gdr, cli, lv, cwfLog, orch, enc, gen, par, wiz>>
    \/ GdcSettle /\ UNCHANGED <<fileVars, varVars, secVars, cfgVars, glr, gdr, cli, lv, cwfLog, orch, enc, gen, par, wiz>>

(***************************************************************************)
(* /api/encrypt: the sealing endpoint (serverless handler, Express route)  *)
(***************************************************************************)
MaxKeyLen == 5

\* A base64 text is a sequence of groups, each decoding to 8 bytes
KeyGroup == "QUFBQUFBQUE"
KeyTexts == UNION {[1..n -> {KeyGroup}] : n \in 0..MaxKeyLen}
MissingField == <<"<undefined>">>
EncServers == {"serverless", "express"}
EncMethods == {"POST", "GET", "PUT"}
EncKeys == KeyTexts \cup {MissingField, NotAString}
EncValues == {MissingField, EmptyString, ValueA, NotAString}

\* Buffer.from(text, 'base64').length
DecodedLength(text) == 8 * Len(text)

\* crypto_box_PUBLICKEYBYTES
PublicKeyBytes == 32

\* crypto_box_seal throws unless the key has crypto_box_PUBLICKEYBYTES bytes;
\* Buffer.from throws a TypeError for an argument that is not a string
SealThrows(key, value) ==
    \/ key = NotAString \/ value = NotAString
    \/ DecodedLength(key) # PublicKeyBytes

\* if (!publicKey || !valueToEncrypt)
MissingInputNever(key, value) == FALSE
MissingInput(key, value) ==
    \/ key \in {MissingField, EmptyString}
    \/ value \in {MissingField, EmptyString}

\* The answer of the handler body shared by both servers
EncryptBody(key, value) ==
    IF MissingInput(key, value)
    THEN [status |-> 400, encryptedValue |-> Absent, sealCalls |-> 0]
    ELSE IF SealThrows(key, value)
    THEN [status |-> 500, encryptedValue |-> Absent,
          sealCalls |-> IF NotAString \in {key, value} THEN 0 ELSE 1]
    ELSE [status |-> 200, encryptedValue |-> Seal(key, value), sealCalls |-> 1]

\* A request that is not a POST: the serverless handler answers 405 before it
\* reads req.body; on the Express server express.json() has parsed the body,
\* app.post does not match, and app.get('*') answers a GET with index.html
NonPostResponse(server, method) ==
    IF server = "serverless"
    THEN [status |-> 405, encryptedValue |-> Absent, sealCalls |-> 0, bodyRead |-> FALSE]
    ELSE [status |-> IF method = "GET" THEN 200 ELSE 404,
          encryptedValue |-> Absent, sealCalls |-> 0, bodyRead |-> TRUE]

EncryptResponse(server, method, key, value) ==
    IF method # "POST" THEN NonPostResponse(server, method)
    ELSE [status |-> EncryptBody(key, value).status,
          encryptedValue |-> EncryptBody(key, value).encryptedValue,
          sealCalls |-> EncryptBody(key, value).sealCalls,
          bodyRead |-> TRUE]

EncIdle == [pc |-> "idle", server |-> "serverless", method |-> "POST",
            key |-> MissingField, value |-> MissingField,
            response |-> [status |-> 0, encryptedValue |-> Absent, sealCalls |-> 0,
                          bodyRead |-> FALSE]]

\* A request reaches the endpoint and is answered
EncHandle(server, method, key, value) ==
    /\ enc.pc = "idle"
    /\ enc' = [pc |-> "responded", server |-> server, method |-> method,
               key |-> key, value |-> value,
               response |-> EncryptResponse(server, method, key, value)]

\* The handler keeps nothing: the next request finds it as the first did
EncNextRequest ==
    /\ enc.pc = "responded"
    /\ enc' = EncIdle

NextEncrypt ==
    \/ \E s \in EncServers, m \in EncMethods, k \in EncKeys, v \in EncValues :
          EncHandle(s, m, k, v) /\ UNCHANGED <<fileVars, varVars, secVars, cfgVars, glr, gdr, cli, lv, cwfLog, orch, gdc, gen, par, wiz>>
    \/ EncNextRequest /\ UNCHANGED <<fileVars, varVars, secVars, cfgVars, glr, gdr, cli, lv, cwfLog, orch, gdc, gen, par, wiz>>

(***************************************************************************)
(* generateWorkflow: the request with its 30 second timer                  *)
(***************************************************************************)
MaxTime == 5

\* setTimeout(() => controller.abort(), 30000), in units of 10 seconds
TimeoutTicks == 3

\* What the backend answers: ok or not, and the fields of the JSON body
GwResponses ==
    [ok : BOOLEAN, json : BOOLEAN, variables : {"list", "undefined"},
     secrets : {"list", "undefined"}]

\* clearTimeout(timeoutId)
ClearTimeoutNot(timer) == timer
ClearTimeout(timer) == IF timer = "armed" THEN "cleared" ELSE timer

\* data.variables || [] and data.secrets || []
GwResult(response) ==
    [yaml |-> "yaml",
     variables |-> IF response.variables = "undefined" THEN "empty" ELSE "list",
     secrets |-> IF response.secrets = "undefined" THEN "empty" ELSE "list"]

GwIdle == [pc |-> "idle", now |-> 0, deadline |-> 0, timer |-> "none",
           aborted |-> FALSE, response |-> Absent, error |-> "none",
           result |-> Absent, settledAt |-> 0, firedAt |-> 0]

\* generateWorkflow(...): the timer is armed and the fetch is started
GwCall ==
    /\ gen.pc \in {"idle"}
    /\ gen' = [GwIdle EXCEPT !.pc = "fetching", !.now = gen.now,
                             !.deadline = gen.now + TimeoutTicks,
                             !.timer = "armed"]

\* Time passes; an armed timer fires when its delay has elapsed
GwTick ==
    /\ gen.now < MaxTime
    /\ gen.timer = "armed" => gen.now < gen.deadline
    /\ gen' = [gen EXCEPT !.now = @ + 1]

\* The timer callback: controller.abort(); a pending fetch, or a pending read
\* of the body, rejects with an AbortError, which the catch turns into the
\* timeout error
GwTimerFires ==
    /\ gen.timer = "armed" /\ gen.now = gen.deadline
    /\ gen' = [gen EXCEPT !.timer = "fired", !.aborted = TRUE, !.firedAt = gen.now,
                  !.pc = IF gen.pc \in {"fetching", "body"} THEN "rejected" ELSE @,
                  !.error = IF gen.pc \in {"fetching", "body"} THEN "timeout" ELSE @,
                  !.settledAt = IF gen.pc \in {"fetching", "body"} THEN gen.now ELSE @]

\* The response arrives: fetch resolves and the timer is cleared
GwResponseArrives(response) ==
    /\ gen.pc = "fetching"
    /\ gen' = [gen EXCEPT !.pc = "body", !.response = response,
                          !.timer = ClearTimeout(gen.timer)]

\* The request fails: the catch clears the timer and rethrows
GwFetchFails ==
    /\ gen.pc = "fetching"
    /\ gen' = [gen EXCEPT !.pc = "rejected", !.error = "network",
                          !.timer = ClearTimeout(gen.timer), !.settledAt = gen.now]

\* The body has been read: the call returns the workflow, or throws the
\* error message of a response that is not ok
GwBodyRead ==
    /\ gen.pc = "body"
    /\ gen' = IF gen.response.ok /\ gen.response.json
              THEN [gen EXCEPT !.pc = "resolved", !.result = GwResult(gen.response),
                               !.settledAt = gen.now]
              ELSE [gen EXCEPT !.pc = "rejected",
                               !.error = IF gen.response.ok THEN "parse" ELSE "backend",
                               !.timer = ClearTimeout(gen.timer),
                               !.settledAt = gen.now]

\* The caller has the outcome; the next call starts from scratch
GwReturn ==
    /\ gen.pc \in {"resolved", "rejected"}
    /\ gen.timer # "armed"
    /\ gen' = [GwIdle EXCEPT !.now = gen.now]

NextGenerate ==
    \/ GwCall /\ UNCHANGED <<fileVars, varVars, secVars, cfgVars, glr, gdr, cli, lv, cwfLog, orch, gdc, enc, par, wiz>>
    \/ GwTick /\ UNCHANGED <<fileVars, varVars, secVars, cfgVars, glr, gdr, cli, lv, cwfLog, orch, gdc, enc, par, wiz>>
    \/ GwTimerFires /\ UNCHANGED <<fileVars, varVars, secVars, cfgVars, glr, gdr, cli, lv, cwfLog, orch, gdc, enc, par, wiz>>
    \/ \E r \in GwResponses :
          GwResponseArrives(r) /\ UNCHANGED <<fileVars, varVars, secVars, cfgVars, glr, gdr, cli, lv, cwfLog, orch, gdc, enc, par, wiz>>
    \/ GwFetchFails /\ UNCHANGED <<fileVars, varVars, secVars, cfgVars, glr, gdr, cli, lv, cwfLog, orch, gdc, enc, par, wiz>>
    \/ GwBodyRead /\ UNCHANGED <<fileVars, varVars, secVars, cfgVars, glr, gdr, cli, lv, cwfLog, orch, gdc, enc, par, wiz>>
    \/ GwReturn /\ UNCHANGED <<fileVars, varVars, secVars, cfgVars, glr, gdr, cli, lv, cwfLog, orch, gdc, enc, par, wiz>>

(***************************************************************************)
(* executeVariablesStep / executeSecretsStep with several entries: the     *)
(* requests of one Promise.all, the catch of runSteps and handleRetry      *)
(***************************************************************************)
NumItems == 2
MaxAttempts == 2

ParItems == 1..NumItems
ParAttempts == 1..MaxAttempts
ParValues == {ValueA, ValueB}

ParIdle == [step |-> "none", status |-> "pending", attempt |-> 0,
            values |-> [n \in ParItems |-> ValueA],
            req |-> [n \in ParItems |-> [a \in ParAttempts |-> "none"]],
            sent |-> [n \in ParItems |-> [a \in ParAttempts |-> Absent]],
            remote |-> [n \in ParItems |-> Absent],
            lastWriter |-> [n \in ParItems |-> 0]]

\* Requests of attempt a that have not settled
ParInFlight(a) == {n \in ParItems : par.req[n][a] = "flight"}

\* Promise.all(promises): rejected as soon as one promise rejects, fulfilled
\* when all are fulfilled
PromiseAll(outcomes) ==
    IF \E n \in DOMAIN outcomes : outcomes[n] = "failed" THEN "rejected"
    ELSE IF \A n \in DOMAIN outcomes : outcomes[n] = "ok" THEN "fulfilled"
    ELSE "pending"

\* Object.entries(values).map(...): every entry with a value starts its
\* request at once
ParStartRequests(a) ==
    [par EXCEPT !.attempt = a, !.status = "in-progress",
                !.req = [n \in ParItems |-> [par.req[n] EXCEPT ![a] = "flight"]],
                !.sent = [n \in ParItems |-> [par.sent[n] EXCEPT ![a] = par.values[n]]]]

\* runSteps reaches the step for the first time
ParExecuteStep(step, values) ==
    /\ par.step = "none"
    /\ par' = [ParStartRequests(1) EXCEPT
                  !.step = step, !.values = values,
                  !.sent = [n \in ParItems |-> [par.sent[n] EXCEPT ![1] = values[n]]]]

\* A request is answered: the remote holds its value.  The awaiting runSteps
\* marks the step 'success' when this was the last request of its Promise.all
ParRequestOk(n, a) ==
    /\ par.req[n][a] = "flight"
    /\ LET outcomes == [m \in ParItems |-> IF m = n THEN "ok" ELSE par.req[m][a]]
           awaited == a = par.attempt /\ par.status = "in-progress"
       IN  par' = [par EXCEPT !.req[n][a] = "ok",
                              !.remote[n] = par.sent[n][a],
                              !.lastWriter[n] = a,
                              !.status = IF awaited /\ PromiseAll(outcomes) = "fulfilled"
                                         THEN "success" ELSE @]

\* A request fails: Promise.all rejects and the catch of runSteps marks the
\* step 'error'; the other requests of the call keep running
ParRequestFail(n, a) ==
    /\ par.req[n][a] = "flight"
    /\ LET outcomes == [m \in ParItems |-> IF m = n THEN "failed" ELSE par.req[m][a]]
           awaited == a = par.attempt /\ par.status = "in-progress"
       IN  par' = [par EXCEPT !.req[n][a] = "failed",
                              !.status = IF awaited /\ PromiseAll(outcomes) = "rejected"
                                         THEN "error" ELSE @]

\* The user edits a value in the form
ParEdit(n, value) ==
    /\ par.step # "none" /\ par.status = "error"
    /\ par.values[n] # value
    /\ par' = [par EXCEPT !.values[n] = value]

\* handleRetry(step): runSteps(step) issues the requests again
ParRetry ==
    /\ par.status = "error"
    /\ par.attempt < MaxAttempts
    /\ par' = ParStartRequests(par.attempt + 1)

\* The configurator is closed and opened again
ParClose ==
    /\ par.status \in {"success", "error"}
    /\ \A a \in ParAttempts : ParInFlight(a) = {}
    /\ par' = ParIdle

NextParallel ==
    \/ \E step \in {"variables", "secrets"}, values \in [ParItems -> ParValues] :
          ParExecuteStep(step, values) /\ UNCHANGED <<fileVars, varVars, secVars, cfgVars, glr, gdr, cli, lv, cwfLog, orch, gdc, enc, gen, wiz>>
    \/ \E n \in ParItems, a \in ParAttempts :
          ParRequestOk(n, a) /\ UNCHANGED <<fileVars, varVars, secVars, cfgVars, glr, gdr, cli, lv, cwfLog, orch, gdc, enc, gen, wiz>>
    \/ \E n \in ParItems, a \in ParAttempts :
          ParRequestFail(n, a) /\ UNCHANGED <<fileVars, varVars, secVars, cfgVars, glr, gdr, cli, lv, cwfLog, orch, gdc, enc, gen, wiz>>
    \/ \E n \in ParItems, v \in ParValues :
          ParEdit(n, v) /\ UNCHANGED <<fileVars, varVars, secVars, cfgVars, glr, gdr, cli, lv, cwfLog, orch, gdc, enc, gen, wiz>>
    \/ ParRetry /\ UNCHANGED <<fileVars, varVars, secVars, cfgVars, glr, gdr, cli, lv, cwfLog, orch, gdc, enc, gen, wiz>>
    \/ ParClose /\ UNCHANGED <<fileVars, varVars, secVars, cfgVars, glr, gdr, cli, lv, cwfLog, orch, gdc, enc, gen, wiz>>

(***************************************************************************)
(* DeploymentWizard                                                        *)
(***************************************************************************)
NumRepos == 2
NumTokens == 2
MaxGenerations == 2

WizRepos == 1..NumRepos
NoRepo == 0

\* Heroku and AWS Elastic Beanstalk take the same branches as GitHub Pages
WizTargets == {"Vercel", "GitHubPages", "Railway"}
NoTarget == "none"

\* Values typed into the token field; 0 is the empty string
WizTokens == 0..NumTokens

\* useState('') for generatedYaml; a generated YAML remembers the selection
\* it was generated for
WizNoYaml == [text |-> "", repo |-> NoRepo, target |-> NoTarget]

NoValidation == [token |-> 0, target |-> NoTarget, outcome |-> "none"]
NoCommit == [pc |-> "none", yaml |-> WizNoYaml, token |-> 0, sentToken |-> 0]
NoGeneration == [pc |-> "none", repo |-> NoRepo, target |-> NoTarget]

WizIdle ==
    [step |-> "SELECT_REPO", selectedRepo |-> NoRepo, selectedTarget |-> NoTarget,
     isGenerating |-> FALSE, generationError |-> FALSE, generatedYaml |-> WizNoYaml,
     hasTokenSecret |-> FALSE, deploymentToken |-> 0,
     isTokenValidating |-> FALSE, tokenValidationResult |-> "null",
     isCommitting |-> FALSE, commitError |-> FALSE,
     generation |-> NoGeneration, validation |-> NoValidation,
     lastValidation |-> NoValidation, commit |-> NoCommit, generations |-> 0]

needsCliValidation == wiz.selectedTarget \in {"Vercel", "Railway"}

canProceedFromConfig ==
    /\ ~wiz.isGenerating /\ ~wiz.generationError
    /\ ~needsCliValidation \/ wiz.tokenValidationResult = "valid"

\* The generation effect has something to do: effects run before the next
\* user event is handled
WizEffectDue ==
    wiz.step = "CONFIGURE" /\ wiz.generatedYaml.text = "" /\ ~wiz.isGenerating

\* The form of the CONFIGURE step with the token field is rendered
WizTokenFieldShown ==
    /\ wiz.step = "CONFIGURE" /\ ~wiz.isGenerating /\ wiz.generatedYaml.text # ""
    /\ needsCliValidation

\* onClick={() => setSelectedRepo(repo)}
WizSelectRepo(repo) ==
    /\ ~WizEffectDue /\ wiz.step = "SELECT_REPO"
    /\ wiz.selectedRepo # repo
    /\ wiz' = [wiz EXCEPT !.selectedRepo = repo]

\* onClick={() => setSelectedTarget(target.id)}
WizSelectTarget(target) ==
    /\ ~WizEffectDue /\ wiz.step = "SELECT_TARGET"
    /\ wiz.selectedTarget # target
    /\ wiz' = [wiz EXCEPT !.selectedTarget = target]

\* The Back button
WizBack ==
    /\ ~WizEffectDue
    /\ wiz.step \in {"SELECT_TARGET", "CONFIGURE"} /\ ~wiz.isCommitting
    /\ wiz' = [wiz EXCEPT !.step = IF wiz.step = "SELECT_TARGET" THEN "SELECT_REPO"
                                   ELSE "SELECT_TARGET"]

\* The Next button on the first two steps
WizNext ==
    /\ ~WizEffectDue /\ ~wiz.isCommitting
    /\ \/ wiz.step = "SELECT_REPO" /\ wiz.selectedRepo # NoRepo
          /\ wiz' = [wiz EXCEPT !.step = "SELECT_TARGET"]
       \/ wiz.step = "SELECT_TARGET" /\ wiz.selectedTarget # NoTarget
          /\ wiz' = [wiz EXCEPT !.step = "CONFIGURE", !.generations = 0]

\* handleGenerateWorkflow(), called by the effect on
\* [step, isGenerating, generatedYaml, handleGenerateWorkflow]
WizGenerationEffect ==
    /\ WizEffectDue
    /\ wiz.selectedRepo # NoRepo /\ wiz.selectedTarget # NoTarget
    /\ wiz' = [wiz EXCEPT !.isGenerating = TRUE, !.generationError = FALSE,
                          !.generatedYaml = WizNoYaml, !.hasTokenSecret = FALSE,
                          !.generation = [pc |-> "analyze", repo |-> wiz.selectedRepo,
                                          target |-> wiz.selectedTarget],
                          !.generations = IF @ < MaxGenerations THEN @ + 1 ELSE @]

\* analyzeRepository resolves and generateWorkflow is called
WizAnalyzeOk ==
    /\ wiz.generation.pc = "analyze"
    /\ wiz' = [wiz EXCEPT !.generation.pc = "generate"]

\* analyzeRepository or generateWorkflow rejects: catch and finally
WizGenerationFails ==
    /\ wiz.generation.pc \in {"analyze", "generate"}
    /\ wiz' = [wiz EXCEPT !.generation = NoGeneration, !.generationError = TRUE,
                          !.isGenerating = FALSE]

\* generateWorkflow resolves with a YAML (possibly empty) and its secrets
WizGenerateOk(text, hasToken) ==
    /\ wiz.generation.pc = "generate"
    /\ wiz' = [wiz EXCEPT !.generation = NoGeneration, !.isGenerating = FALSE,
                          !.hasTokenSecret = hasToken,
                          !.generatedYaml = IF text = "" THEN WizNoYaml
                                            ELSE [text |-> text,
                                                  repo |-> wiz.generation.repo,
                                                  target |-> wiz.generation.target]]

\* onChange={e => setDeploymentToken(e.target.value)}
WizTokenChange(token) ==
    /\ ~WizEffectDue /\ WizTokenFieldShown
    /\ wiz.deploymentToken # token
    /\ wiz' = [wiz EXCEPT !.deploymentToken = token]

\* handleValidateToken()
WizValidateToken ==
    /\ ~WizEffectDue /\ WizTokenFieldShown
    /\ ~wiz.isTokenValidating /\ wiz.deploymentToken # 0
    /\ wiz' = [wiz EXCEPT !.isTokenValidating = TRUE, !.tokenValidationResult = "null",
                          !.validation = [token |-> wiz.deploymentToken,
                                          target |-> wiz.selectedTarget,
                                          outcome |-> "pending"]]

\* /api/run-cli answers: 'valid', or 'invalid' from the catch
WizValidationSettles(outcome) ==
    /\ wiz.validation.outcome = "pending"
    /\ wiz' = [wiz EXCEPT !.isTokenValidating = FALSE,
                          !.tokenValidationResult = outcome,
                          !.lastValidation = [wiz.validation EXCEPT !.outcome = outcome],
                          !.validation = NoValidation]

\* The Commit & Deploy button: setStep('COMMIT'); handleCommit()
WizCommit ==
    /\ ~WizEffectDue /\ ~wiz.isCommitting
    /\ wiz.step = "CONFIGURE" /\ canProceedFromConfig
    /\ IF wiz.selectedRepo = NoRepo \/ wiz.generatedYaml.text = ""
       THEN wiz' = [wiz EXCEPT !.step = "COMMIT"]
       ELSE wiz' = [wiz EXCEPT !.step = "COMMIT", !.isCommitting = TRUE,
                               !.commitError = FALSE,
                               !.commit = [pc |-> "file", yaml |-> wiz.generatedYaml,
                                           token |-> wiz.deploymentToken,
                                           sentToken |-> 0]]

\* createWorkflowFile resolves; the variables are set next
WizCommitFileOk ==
    /\ wiz.commit.pc = "file"
    /\ wiz' = [wiz EXCEPT !.commit.pc = "variables"]

\* The variables are set; the deployment token is stored when the workflow
\* names a TOKEN secret and the field is not empty
WizCommitVariablesOk ==
    /\ wiz.commit.pc = "variables"
    /\ IF wiz.hasTokenSecret /\ wiz.commit.token # 0
       THEN wiz' = [wiz EXCEPT !.commit.pc = "secrets",
                               !.commit.sentToken = wiz.commit.token]
       ELSE wiz' = [wiz EXCEPT !.commit = NoCommit, !.step = "SUCCESS",
                               !.isCommitting = FALSE]

\* setRepositorySecret resolves: setStep('SUCCESS'), finally
WizCommitSecretsOk ==
    /\ wiz.commit.pc = "secrets"
    /\ wiz' = [wiz EXCEPT !.commit = NoCommit, !.step = "SUCCESS",
                          !.isCommitting = FALSE]

\* Any request of handleCommit rejects: catch and finally
WizCommitFails ==
    /\ wiz.commit.pc \in {"file", "variables", "secrets"}
    /\ wiz' = [wiz EXCEPT !.commit = NoCommit, !.step = "CONFIGURE",
                          !.commitError = TRUE, !.isCommitting = FALSE]

WizCommitSettles ==
    WizCommitFileOk \/ WizCommitVariablesOk \/ WizCommitSecretsOk \/ WizCommitFails

NextWizard ==
    \/ \E r \in WizRepos :
          WizSelectRepo(r) /\ UNCHANGED <<fileVars, varVars, secVars, cfgVars, glr, gdr, cli, lv, cwfLog, orch, gdc, enc, gen, par>>
    \/ \E t \in WizTargets :
          WizSelectTarget(t) /\ UNCHANGED <<fileVars, varVars, secVars, cfgVars, glr, gdr, cli, lv, cwfLog, orch, gdc, enc, gen, par>>
    \/ WizBack /\ UNCHANGED <<fileVars, varVars, secVars, cfgVars, glr, gdr, cli, lv, cwfLog, orch, gdc, enc, gen, par>>
    \/ WizNext /\ UNCHANGED <<fileVars, varVars, secVars, cfgVars, glr, gdr, cli, lv, cwfLog, orch, gdc, enc, gen, par>>
    \/ WizGenerationEffect /\ UNCHANGED <<fileVars, varVars, secVars, cfgVars, glr, gdr, cli, lv, cwfLog, orch, gdc, enc, gen, par>>
    \/ WizAnalyzeOk /\ UNCHANGED <<fileVars, varVars, secVars, cfgVars, glr, gdr, cli, lv, cwfLog, orch, gdc, enc, gen, par>>
    \/ WizGenerationFails /\ UNCHANGED <<fileVars, varVars, secVars, cfgVars, glr, gdr, cli, lv, cwfLog, orch, gdc, enc, gen, par>>
    \/ \E text \in {"", "yaml"}, hasToken \in BOOLEAN :
          WizGenerateOk(text, hasToken) /\ UNCHANGED <<fileVars, varVars, secVars, cfgVars, glr, gdr, cli, lv, cwfLog, orch, gdc, enc, gen, par>>
    \/ \E t \in WizTokens :
          WizTokenChange(t) /\ UNCHANGED <<fileVars, varVars, secVars, cfgVars, glr, gdr, cli, lv, cwfLog, orch, gdc, enc, gen, par>>
    \/ WizValidateToken /\ UNCHANGED <<fileVars, varVars, secVars, cfgVars, glr, gdr, cli, lv, cwfLog, orch, gdc, enc, gen, par>>
    \/ \E o \in {"valid", "invalid"} :
          WizValidationSettles(o) /\ UNCHANGED <<fileVars, varVars, secVars, cfgVars, glr, gdr, cli, lv, cwfLog, orch, gdc, enc, gen, par>>
    \/ WizCommit /\ UNCHANGED <<fileVars, varVars, secVars, cfgVars, glr, gdr, cli, lv, cwfLog, orch, gdc, enc, gen, par>>
    \/ WizCommitFileOk /\ UNCHANGED <<fileVars, varVars, secVars, cfgVars, glr, gdr, cli, lv, cwfLog, orch, gdc, enc, gen, par>>
    \/ WizCommitVariablesOk /\ UNCHANGED <<fileVars, varVars, secVars, cfgVars, glr, gdr, cli, lv, cwfLog, orch, gdc, enc, gen, par>>
    \/ WizCommitSecretsOk /\ UNCHANGED <<fileVars, varVars, secVars, cfgVars, glr, gdr, cli, lv, cwfLog, orch, gdc, enc, gen, par>>
    \/ WizCommitFails /\ UNCHANGED <<fileVars, varVars, secVars, cfgVars, glr, gdr, cli, lv, cwfLog, orch, gdc, enc, gen, par>>

(***************************************************************************)
(* PipelineConfigurator: state, user events, runSteps and the completion   *)
(* effect                                                                  *)
(***************************************************************************)
\* The runSteps executions followed while the configurator is mounted, and
\* the calls of onPipelineConfigured counted
MaxRuns == 2
MaxSignals == 2
RunIds == 1..MaxRuns

Steps == <<"workflowFile", "variables", "secrets">>
\* steps.indexOf(startingStep)
StepIndexFirst(step) == 1
StepIndex(step) == CHOOSE i \in 1..3 : Steps[i] = step

TemplateIds == {"react-vercel", "import"}

initialCommitProgress ==
    [workflowFile |-> "pending", variables |-> "pending", secrets |-> "pending"]

EmptyYaml == <<>>

\* The remote file after a commit of empty content (a file, unlike NoFile)
EmptyFile == <<0>>

\* {} as the value of variableValues / secretValues
NoVariableValues == [n \in VarNames |-> Absent]
NoSecretValues == [n \in SecretNames |-> Absent]

\* The message of the error an executor throws
StepFailure == <<"f","a","i","l","e","d">>

\* Object.keys(secretValues).filter(key => secretValues[key])
ActiveSecrets(sv) == {n \in SecretNames : sv[n] # Absent /\ Truthy(sv[n])}

\* executeVariablesStep: the entries of variableValues with if (value)
ActiveVariables(vv) == {n \in VarNames : vv[n] # Absent /\ Truthy(vv[n])}

\* The useEffect on requiredVariables: initialValues[v.name] = v.defaultValue || ''
DefaultVariableValues(required, default) ==
    [n \in VarNames |-> IF n \in required THEN default ELSE Absent]

\* allStepsSuccessful of the completion effect
AllStepsSuccessful ==
    /\ commitProgress.workflowFile = "success"
    /\ (Cardinality(requiredVariables) > 0 => commitProgress.variables = "success")
    /\ (Cardinality(ActiveSecrets(secretValues)) > 0
          => commitProgress.secrets = "success")

\* runSteps: next[steps[i]] = 'pending' for i >= startIndex
ResetAll(progress, startIndex) == [s \in DOMAIN progress |-> "pending"]
ResetFrom(progress, startIndex) ==
    [s \in DOMAIN progress |->
        IF StepIndex(s) >= startIndex THEN "pending" ELSE progress[s]]

\* runSteps: the condition under which a step is marked success and skipped
SkipsStep(step, nReq, sv) ==
    \/ step = "variables" /\ nReq = 0
    \/ step = "secrets" /\ ~(Cardinality(ActiveSecrets(sv)) > 0)

\* The requests the executor of a step starts (the promises of its Promise.all)
StepItems(step, run) ==
    CASE step = "workflowFile" -> {0}
      [] step = "variables" -> ActiveVariables(run.vv)
      [] step = "secrets" ->
            {n \in SecretNames : run.sv[n] # Absent /\ StepAppliesSecret(run.sv[n])
                                 /\ ~IsEmptySecret(run.sv[n])}

\* What a request of a step leaves on the remote when it succeeds
FileAfter(step, run) ==
    IF step # "workflowFile" THEN remoteFile
    ELSE IF run.yaml = EmptyYaml THEN EmptyFile
    ELSE DecodeContent(EncodeContent(run.yaml))
VarsAfter(step, item, value) ==
    IF step = "variables" THEN [remoteVars EXCEPT ![item] = value] ELSE remoteVars
SecretsAfter(step, item, value) ==
    IF step = "secrets" THEN [remoteSecrets EXCEPT ![item] = Seal(1, value)]
    ELSE remoteSecrets

ItemValue(step, item, run) ==
    CASE step = "workflowFile" -> run.yaml
      [] step = "variables" -> run.vv[item]
      [] step = "secrets" -> run.sv[item]

RunIdle == [pc |-> "idle", i |-> 0, yaml |-> EmptyYaml,
            vv |-> NoVariableValues, sv |-> NoSecretValues, nReq |-> 0,
            inflight |-> {}, resumed |-> FALSE]

\* A runSteps execution that has returned
RunReturned == [RunIdle EXCEPT !.pc = "returned"]

\* A runSteps execution is between two awaits: nothing else runs meanwhile
SyncBusy == \E r \in RunIds : runs[r].pc \in {"loop", "resolved"}

\* The event loop is free to run an event handler or a response callback
Quiet == mounted /\ ~SyncBusy /\ ~effectDue

FreeSlots == {r \in RunIds : runs[r].pc = "idle"}
FreeSlot == CHOOSE r \in FreeSlots : \A q \in FreeSlots : r <= q

FormShown == generatedYaml # EmptyYaml /\ ~isInitialLoading
ChooserShown == mode = "create" /\ generatedYaml = EmptyYaml /\ ~isInitialLoading

\* ProgressItem: the Retry button of a step is rendered
RetryShown(step) ==
    /\ isCommitting
    /\ commitProgress[step] = "error"
    /\ \/ step = "workflowFile"
       \/ step = "variables" /\ Cardinality(requiredVariables) > 0
       \/ step = "secrets" /\ Cardinality(ActiveSecrets(secretValues)) > 0

serviceVars == <<cwf, srv, sec, toolVars>>
remoteState == <<remoteFile, remoteVars, remoteSecrets>>
formVars == <<selectedTemplateId, generatedYaml, requiredVariables, requiredSecrets,
              variableValues, secretValues, isLoading, isInitialLoading>>

(* ------------------------------ user events ---------------------------- *)

\* handleVariableChange(name, value)
HandleVariableChange(name, value) ==
    /\ Quiet /\ FormShown
    /\ name \in requiredVariables
    /\ variableValues[name] # value
    /\ variableValues' = [variableValues EXCEPT ![name] = value]
    /\ UNCHANGED <<serviceVars, remoteState, mode, mounted, selectedTemplateId,
                   generatedYaml, requiredVariables, requiredSecrets, secretValues,
                   isLoading, isInitialLoading, isCommitting, commitProgress,
                   commitError, runs, effectDue, signals, closeTimer>>

\* handleSecretChange(name, value)
HandleSecretChange(name, value) ==
    /\ Quiet /\ FormShown
    /\ name \in requiredSecrets
    /\ secretValues[name] # value
    /\ ~(secretValues[name] = Absent /\ value = EmptyString)
    /\ secretValues' = [secretValues EXCEPT ![name] = value]
    /\ effectDue' = TRUE
    /\ UNCHANGED <<serviceVars, remoteState, mode, mounted, selectedTemplateId,
                   generatedYaml, requiredVariables, requiredSecrets, variableValues,
                   isLoading, isInitialLoading, isCommitting, commitProgress,
                   commitError, runs, signals, closeTimer>>

\* Editor onValueChange={setGeneratedYaml}
EditYaml(yaml) ==
    /\ Quiet /\ FormShown
    /\ yaml # generatedYaml
    /\ generatedYaml' = yaml
    /\ UNCHANGED <<serviceVars, remoteState, mode, mounted, selectedTemplateId,
                   requiredVariables, requiredSecrets, variableValues, secretValues,
                   isLoading, isInitialLoading, isCommitting, commitProgress,
                   commitError, runs, effectDue, signals, closeTimer>>

\* handleTemplateClick(templateId) and the useEffect on [selectedTemplateId, mode]
HandleTemplateClick(templateId) ==
    /\ Quiet /\ ChooserShown
    /\ templateId # selectedTemplateId
    /\ selectedTemplateId' = templateId
    /\ IF templateId # "import"
       THEN /\ generatedYaml' = EmptyYaml
            /\ requiredVariables' = {}
            /\ requiredSecrets' = {}
            /\ variableValues' = NoVariableValues
            /\ secretValues' = NoSecretValues
       ELSE UNCHANGED <<generatedYaml, requiredVariables, requiredSecrets,
                        variableValues, secretValues>>
    /\ isCommitting' = FALSE
    /\ commitProgress' = initialCommitProgress
    /\ effectDue' = TRUE
    /\ signals' = 0
    /\ UNCHANGED <<serviceVars, remoteState, mode, mounted, isLoading,
                   isInitialLoading, commitError, runs, closeTimer>>

\* handleFileChange: the file picked after 'Import from File' has been read
HandleFileChange(yaml, variables, secrets) ==
    /\ Quiet /\ ChooserShown
    /\ selectedTemplateId = "import"
    /\ generatedYaml' = yaml
    /\ requiredSecrets' = secrets
    /\ requiredVariables' = variables
    /\ variableValues' = DefaultVariableValues(variables, EmptyString)
    /\ effectDue' = TRUE
    /\ UNCHANGED <<serviceVars, remoteState, mode, mounted, selectedTemplateId,
                   secretValues, isLoading, isInitialLoading, isCommitting,
                   commitProgress, commitError, runs, signals, closeTimer>>

\* handleGenerate up to its first await
HandleGenerate ==
    /\ Quiet /\ ChooserShown
    /\ selectedTemplateId # "import"
    /\ ~isLoading /\ ~isCommitting
    /\ isLoading' = TRUE
    /\ generatedYaml' = EmptyYaml
    /\ requiredVariables' = {}
    /\ requiredSecrets' = {}
    /\ variableValues' = NoVariableValues
    /\ secretValues' = NoSecretValues
    /\ effectDue' = TRUE
    /\ UNCHANGED <<serviceVars, remoteState, mode, mounted, selectedTemplateId,
                   isInitialLoading, isCommitting, commitProgress, commitError,
                   runs, signals, closeTimer>>

\* handleGenerate after generateWorkflow resolved
GenerateDone(yaml, variables, default, secrets) ==
    /\ Quiet /\ isLoading
    /\ isLoading' = FALSE
    /\ generatedYaml' = yaml
    /\ requiredVariables' = variables
    /\ requiredSecrets' = secrets
    /\ variableValues' = DefaultVariableValues(variables, default)
    /\ effectDue' = TRUE
    /\ UNCHANGED <<serviceVars, remoteState, mode, mounted, selectedTemplateId,
                   secretValues, isInitialLoading, isCommitting, commitProgress,
                   commitError, runs, signals, closeTimer>>

\* handleGenerate after generateWorkflow rejected
GenerateFailed ==
    /\ Quiet /\ isLoading
    /\ isLoading' = FALSE
    /\ UNCHANGED <<serviceVars, remoteState, mode, mounted, selectedTemplateId,
                   generatedYaml, requiredVariables, requiredSecrets, variableValues,
                   secretValues, isInitialLoading, isCommitting, commitProgress,
                   commitError, runs, effectDue, signals, closeTimer>>

\* loadExistingConfig (mode 'edit') after getWorkflowConfiguration resolved
LoadExistingDone(yaml, variables, default, secrets) ==
    /\ Quiet /\ isInitialLoading
    /\ isInitialLoading' = FALSE
    /\ generatedYaml' = yaml
    /\ requiredVariables' = variables
    /\ requiredSecrets' = secrets
    /\ variableValues' = DefaultVariableValues(variables, default)
    /\ secretValues' = NoSecretValues
    /\ effectDue' = TRUE
    /\ UNCHANGED <<serviceVars, remoteState, mode, mounted, selectedTemplateId,
                   isLoading, isCommitting, commitProgress, commitError, runs,
                   signals, closeTimer>>

\* loadExistingConfig after getWorkflowConfiguration rejected
LoadExistingFailed ==
    /\ Quiet /\ isInitialLoading
    /\ isInitialLoading' = FALSE
    /\ UNCHANGED <<serviceVars, remoteState, mode, mounted, selectedTemplateId,
                   generatedYaml, requiredVariables, requiredSecrets, variableValues,
                   secretValues, isLoading, isCommitting, commitProgress,
                   commitError, runs, effectDue, signals, closeTimer>>

(* ------------------------------- runSteps ------------------------------ *)

\* runSteps(startingStep) up to its loop, with the closure of the render
StartedRun(startingStep, resumed) ==
    [RunIdle EXCEPT !.pc = "loop", !.i = StepIndex(startingStep),
                    !.yaml = generatedYaml,
                    !.vv = variableValues, !.sv = secretValues,
                    !.nReq = Cardinality(requiredVariables), !.resumed = resumed]

\* handleConfirmSetup
HandleConfirmSetup ==
    /\ Quiet /\ ~isCommitting
    /\ generatedYaml # EmptyYaml /\ ~isInitialLoading
    /\ FreeSlots # {}
    /\ isCommitting' = TRUE
    /\ commitError' = NoError
    /\ commitProgress' = ResetFrom(initialCommitProgress, 1)
    /\ runs' = [runs EXCEPT ![FreeSlot] = StartedRun("workflowFile", FALSE)]
    /\ effectDue' = TRUE
    /\ signals' = 0
    /\ UNCHANGED <<serviceVars, remoteState, mode, mounted, formVars,
                   closeTimer>>

\* handleRetry(step), from the Retry button of a step in error
HandleRetry(step) ==
    /\ Quiet /\ RetryShown(step)
    /\ FreeSlots # {}
    /\ commitError' = NoError
    /\ commitProgress' = ResetFrom(commitProgress, StepIndex(step))
    /\ runs' = [runs EXCEPT ![FreeSlot] =
                  StartedRun(step, step = "variables"
                                   /\ commitProgress.workflowFile = "success"
                                   /\ commitProgress.variables = "error"
                                   /\ commitProgress.secrets = "pending")]
    /\ effectDue' = TRUE
    /\ signals' = 0
    /\ UNCHANGED <<serviceVars, remoteState, mode, mounted, formVars, isCommitting,
                   closeTimer>>

\* One pass of the for loop of runSteps up to `continue` or the await
RunLoop(r) ==
    /\ mounted /\ runs[r].pc = "loop"
    /\ LET run == runs[r] IN
       IF run.i > 3
       THEN /\ runs' = [runs EXCEPT ![r] = RunReturned]
            /\ UNCHANGED <<commitProgress, effectDue>>
       ELSE LET step == Steps[run.i] IN
            IF SkipsStep(step, run.nReq, run.sv)
            THEN /\ commitProgress' = [commitProgress EXCEPT ![step] = "success"]
                 /\ runs' = [runs EXCEPT ![r].i = @ + 1]
                 /\ effectDue' = TRUE
            ELSE /\ commitProgress' = [commitProgress EXCEPT ![step] = "in-progress"]
                 /\ runs' = [runs EXCEPT
                       ![r].pc = IF StepItems(step, run) = {} THEN "resolved"
                                 ELSE "await",
                       ![r].inflight = StepItems(step, run)]
                 /\ effectDue' = TRUE
    /\ UNCHANGED <<serviceVars, remoteState, mode, mounted, formVars, isCommitting,
                   commitError, signals, closeTimer>>

\* The awaited executor resolved: the step is marked success
RunResolved(r) ==
    /\ mounted /\ runs[r].pc = "resolved"
    /\ LET step == Steps[runs[r].i] IN
       /\ commitProgress' = [commitProgress EXCEPT ![step] = "success"]
       /\ runs' = [runs EXCEPT ![r].pc = "loop", ![r].i = @ + 1]
    /\ effectDue' = TRUE
    /\ UNCHANGED <<serviceVars, remoteState, mode, mounted, formVars, isCommitting,
                   commitError, signals, closeTimer>>

\* A request of the awaited executor succeeds
RequestSucceeds(r, item) ==
    /\ Quiet /\ runs[r].pc = "await"
    /\ item \in runs[r].inflight
    /\ LET run == runs[r]
           step == Steps[run.i]
           value == ItemValue(step, item, run) IN
       /\ remoteFile' = FileAfter(step, run)
       /\ remoteVars' = VarsAfter(step, item, value)
       /\ remoteSecrets' = SecretsAfter(step, item, value)
       /\ runs' = [runs EXCEPT ![r].inflight = @ \ {item},
                       ![r].pc = IF run.inflight = {item} THEN "resolved" ELSE "await"]
    /\ UNCHANGED <<serviceVars, mode, mounted, formVars, isCommitting,
                   commitProgress, commitError, effectDue, signals,
                   closeTimer>>

\* A request of the awaited executor fails: Promise.all rejects, the catch
\* block records the error and runSteps returns (the other requests of the
\* step are not followed further)
RequestFails(r, item) ==
    /\ Quiet /\ runs[r].pc = "await"
    /\ item \in runs[r].inflight
    /\ LET run == runs[r]
           step == Steps[run.i] IN
       /\ commitError' = StepFailure
       /\ commitProgress' = [commitProgress EXCEPT ![step] = "error"]
       /\ runs' = [runs EXCEPT ![r] = RunReturned]
    /\ effectDue' = TRUE
    /\ UNCHANGED <<serviceVars, remoteState, mode, mounted, formVars, isCommitting,
                   signals, closeTimer>>

(* ----------------- completion effect, Dashboard, closing --------------- *)

\* Dashboard.handlePipelineConfigured: setRepositories re-renders Dashboard,
\* which passes a new onClose (and onPipelineConfigured) to the configurator
DashboardRerenders == TRUE

\* The useEffect that checks whether all setup steps are completed
CompletionEffect ==
    /\ mounted /\ effectDue /\ ~SyncBusy
    /\ IF isCommitting /\ AllStepsSuccessful
       THEN /\ signals < MaxSignals
            /\ commitError' = NoError
            /\ signals' = signals + 1
            /\ closeTimer' = TRUE
            /\ effectDue' = DashboardRerenders
       ELSE /\ effectDue' = FALSE
            /\ UNCHANGED <<commitError, signals, closeTimer>>
    /\ UNCHANGED <<serviceVars, remoteState, mode, mounted, formVars, isCommitting,
                   commitProgress, runs>>

\* setTimeout(() => onClose(), 1500) fires: Dashboard unmounts the configurator
CloseTimerFires ==
    /\ mounted /\ closeTimer /\ ~SyncBusy
    /\ mounted' = FALSE
    /\ UNCHANGED <<serviceVars, remoteState, mode, formVars, isCommitting,
                   commitProgress, commitError, runs, effectDue, signals,
                   closeTimer>>

\* The Cancel button (disabled while isCommitting && !commitError)
Cancel ==
    /\ Quiet
    /\ ~(isCommitting /\ commitError = NoError)
    /\ mounted' = FALSE
    /\ UNCHANGED <<serviceVars, remoteState, mode, formVars, isCommitting,
                   commitProgress, commitError, runs, effectDue, signals,
                   closeTimer>>

(***************************************************************************)
(* handleConfirmSetup repeated: one runSteps at a time, its executors      *)
(* calling createWorkflowFile, setRepositoryVariable, setRepositorySecret  *)
(***************************************************************************)
MaxPasses == 2

\* What the form holds when Confirm is clicked
PassValues == Values \cup {EmptyString}
PassVariableValues ==
    [VarNames -> PassValues \cup {Absent}]
PassSecretValues == [SecretNames -> PassValues]
NoInputs == [yaml |-> NoFile, vv |-> NoVariableValues,
             sv |-> [n \in SecretNames |-> EmptyString]]

\* The remote as the orchestration sees it
RemoteNow == [file |-> remoteFile, vars |-> remoteVars, secrets |-> remoteSecrets]

\* The value the repository holds for a secret: the sealed box opened with the
\* private key of the key id it was sealed for
Unseal(cipher) == IF cipher = Absent THEN Absent ELSE cipher[3]

OrchIdle ==
    [pc |-> "idle", pass |-> 0, i |-> 0, progress |-> initialCommitProgress,
     yaml |-> NoFile, vv |-> NoVariableValues,
     sv |-> [n \in SecretNames |-> EmptyString], nReq |-> 0,
     todo |-> {}, failed |-> FALSE, prev |-> NoInputs,
     before |-> [file |-> NoFile, vars |-> NoVariableValues,
                 secrets |-> [n \in SecretNames |-> Absent]],
     conflict |-> FALSE, retries |-> 0, retryOfConflict |-> FALSE,
     interfered |-> FALSE]

OrchInputs == [yaml |-> orch.yaml, vv |-> orch.vv, sv |-> orch.sv]
OrchAllSuccess == \A s \in DOMAIN orch.progress : orch.progress[s] = "success"
OrchStep == Steps[orch.i]

\* handleConfirmSetup: the first time, or again after an orchestration that
\* completed with every step 'success'
OrchConfirm(yaml, vv, sv) ==
    /\ orch.pc = "idle" /\ orch.pass < MaxPasses
    /\ orch.pass > 0 => OrchAllSuccess
    /\ orch' = [orch EXCEPT !.pc = "loop", !.pass = @ + 1, !.i = 1,
                            !.progress = ResetFrom(initialCommitProgress, 1),
                            !.yaml = yaml, !.vv = vv, !.sv = sv,
                            !.nReq = Cardinality({n \in VarNames : vv[n] # Absent}),
                            !.todo = {}, !.failed = FALSE,
                            !.conflict = FALSE, !.retryOfConflict = FALSE,
                            !.interfered = FALSE,
                            !.prev = IF orch.pass = 0 THEN NoInputs ELSE OrchInputs,
                            !.before = RemoteNow]
    /\ UNCHANGED <<fileVars, varVars, secVars>>

\* runSteps: the loop has passed the last step
OrchReturn ==
    /\ orch.pc = "loop" /\ orch.i > 3
    /\ orch' = [orch EXCEPT !.pc = "idle"]
    /\ UNCHANGED <<fileVars, varVars, secVars>>

\* runSteps: a step with nothing to do is marked success
OrchSkip ==
    /\ orch.pc = "loop" /\ orch.i <= 3
    /\ SkipsStep(OrchStep, orch.nReq, orch.sv)
    /\ orch' = [orch EXCEPT !.progress[OrchStep] = "success", !.i = @ + 1]
    /\ UNCHANGED <<fileVars, varVars, secVars>>

\* runSteps awaits executeWorkflowFileStep
OrchWorkflowFileStep ==
    /\ orch.pc = "loop" /\ orch.i <= 3 /\ OrchStep = "workflowFile"
    /\ CwfCall(orch.yaml)
    /\ orch' = [orch EXCEPT !.pc = "exec", !.progress[OrchStep] = "in-progress"]
    /\ UNCHANGED <<varVars, secVars>>

\* runSteps awaits executeVariablesStep: the entries with a value are applied
\* (the calls, which touch different variables, are followed one by one)
OrchVariablesStep ==
    /\ orch.pc = "loop" /\ orch.i <= 3 /\ OrchStep = "variables"
    /\ ~SkipsStep(OrchStep, orch.nReq, orch.sv)
    /\ orch' = [orch EXCEPT !.pc = "exec", !.progress[OrchStep] = "in-progress",
                            !.todo = ActiveVariables(orch.vv)]
    /\ UNCHANGED <<fileVars, varVars, secVars>>

OrchVariableCall(name) ==
    /\ orch.pc = "exec" /\ OrchStep = "variables"
    /\ name \in orch.todo
    /\ SrvCall(name, orch.vv[name])
    /\ orch' = [orch EXCEPT !.todo = @ \ {name}]
    /\ UNCHANGED <<fileVars, secVars>>

\* runSteps awaits executeSecretsStep
OrchSecretsStep ==
    /\ orch.pc = "loop" /\ orch.i <= 3 /\ OrchStep = "secrets"
    /\ ~SkipsStep(OrchStep, orch.nReq, orch.sv)
    /\ ExecuteSecretsStep(orch.sv)
    /\ orch' = [orch EXCEPT !.pc = "exec", !.progress[OrchStep] = "in-progress"]
    /\ UNCHANGED <<fileVars, varVars>>

\* The awaited executor resolved, or rejected: try / catch of runSteps
OrchSettled(ok) ==
    orch' = [orch EXCEPT !.pc = IF ok THEN "loop" ELSE "idle",
                         !.i = IF ok THEN @ + 1 ELSE @,
                         !.todo = {},
                         !.progress[OrchStep] = IF ok THEN "success" ELSE "error",
                         !.conflict = /\ OrchStep = "workflowFile" /\ ~ok
                                      /\ cwf.putSent /\ cwf.stale /\ ~orch.failed]

OrchWorkflowFileSettled ==
    /\ orch.pc = "exec" /\ OrchStep = "workflowFile"
    /\ CwfReturn
    /\ OrchSettled(cwf.pc = "done")
    /\ UNCHANGED <<varVars, secVars>>

\* A setRepositoryVariable call threw: Promise.all rejects
OrchVariableThrew ==
    /\ orch.pc = "exec" /\ OrchStep = "variables"
    /\ srv.pc = "threw"
    /\ SrvReturn
    /\ OrchSettled(FALSE)
    /\ UNCHANGED <<fileVars, secVars>>

OrchVariableDone ==
    /\ orch.pc = "exec" /\ OrchStep = "variables"
    /\ srv.pc = "done"
    /\ SrvReturn
    /\ UNCHANGED <<orch, fileVars, secVars>>

\* Every promise of executeVariablesStep resolved
OrchVariablesResolved ==
    /\ orch.pc = "exec" /\ OrchStep = "variables"
    /\ orch.todo = {} /\ srv.pc = "idle"
    /\ OrchSettled(TRUE)
    /\ UNCHANGED <<fileVars, varVars, secVars>>

\* Every promise of executeSecretsStep has settled
OrchSecretsSettled ==
    /\ orch.pc = "exec" /\ OrchStep = "secrets"
    /\ \A n \in SecretNames : sec[n].pc \in {"done", "threw"}
    /\ sec' = [n \in SecretNames |-> SecIdle]
    /\ OrchSettled(\A n \in SecretNames : sec[n].pc = "done")
    /\ UNCHANGED <<fileVars, varVars, remoteSecrets>>

\* A request of a running executor is answered from the state of the remote
OrchRequestAnswered ==
    /\ \/ CwfGetOk /\ UNCHANGED <<varVars, secVars>>
       \/ CwfGetFail(404, MsgNotFound) /\ UNCHANGED <<varVars, secVars>>
       \/ CwfPut /\ UNCHANGED <<varVars, secVars>>
       \/ SrvPatchOk /\ UNCHANGED <<fileVars, secVars>>
       \/ SrvPatchFail(404, MsgNotFound) /\ UNCHANGED <<fileVars, secVars>>
       \/ SrvPostOk /\ UNCHANGED <<fileVars, secVars>>
       \/ \E n \in SecretNames, k \in KeyIds :
             SecretKeyOk(n, k) /\ UNCHANGED <<fileVars, varVars>>
       \/ \E n \in SecretNames : SecretSealOk(n) /\ UNCHANGED <<fileVars, varVars>>
       \/ \E n \in SecretNames : SecretPutOk(n) /\ UNCHANGED <<fileVars, varVars>>
    /\ UNCHANGED orch

\* A request of a running executor fails for a reason of its own
OrchRequestFailed ==
    /\ \/ \E s \in FailStatuses, b \in BodyMessages :
             CwfGetFail(s, b) /\ UNCHANGED <<varVars, secVars>>
       \/ \E s \in FailStatuses, b \in BodyMessages :
             CwfPutFail(s, b) /\ UNCHANGED <<varVars, secVars>>
       \/ \E s \in FailStatuses, b \in BodyMessages :
             SrvPatchFail(s, b) /\ UNCHANGED <<fileVars, secVars>>
       \/ \E s \in FailStatuses \cup {409}, b \in BodyMessages :
             SrvPostFail(s, b) /\ UNCHANGED <<fileVars, secVars>>
       \/ \E n \in SecretNames : SecretRequestFail(n) /\ UNCHANGED <<fileVars, varVars>>
    /\ orch' = [orch EXCEPT !.failed = TRUE]

\* handleRetry(step) after the step ended in 'error'
MaxRetries == 1
OrchRetry(step) ==
    /\ orch.pc = "idle" /\ orch.pass > 0
    /\ orch.progress[step] = "error"
    /\ orch.retries < MaxRetries
    /\ orch' = [orch EXCEPT !.pc = "loop", !.i = StepIndex(step),
                            !.progress = ResetFrom(orch.progress, StepIndex(step)),
                            !.todo = {}, !.failed = FALSE, !.interfered = FALSE,
                            !.retries = @ + 1,
                            !.retryOfConflict = orch.conflict /\ step = "workflowFile"]
    /\ UNCHANGED <<fileVars, varVars, secVars>>

\* Another writer commits to the path of the workflow file, or deletes it
OrchOtherWriter ==
    /\ orch.pass > 0
    /\ \/ \E c \in Contents : OtherWriterCommit(c)
       \/ OtherWriterDelete
    /\ orch' = [orch EXCEPT !.interfered = TRUE]
    /\ UNCHANGED <<varVars, secVars>>

NextRerun ==
    \/ \E y \in Contents, vv \in PassVariableValues, sv \in PassSecretValues :
          OrchConfirm(y, vv, sv) /\ UNCHANGED <<cfgVars, glr, gdr, cli, lv, cwfLog, gdc, enc, gen, par, wiz>>
    \/ OrchReturn /\ UNCHANGED <<cfgVars, glr, gdr, cli, lv, cwfLog, gdc, enc, gen, par, wiz>>
    \/ OrchSkip /\ UNCHANGED <<cfgVars, glr, gdr, cli, lv, cwfLog, gdc, enc, gen, par, wiz>>
    \/ OrchWorkflowFileStep /\ UNCHANGED <<cfgVars, glr, gdr, cli, lv, cwfLog, gdc, enc, gen, par, wiz>>
    \/ OrchVariablesStep /\ UNCHANGED <<cfgVars, glr, gdr, cli, lv, cwfLog, gdc, enc, gen, par, wiz>>
    \/ \E n \in VarNames : OrchVariableCall(n) /\ UNCHANGED <<cfgVars, glr, gdr, cli, lv, cwfLog, gdc, enc, gen, par, wiz>>
    \/ OrchSecretsStep /\ UNCHANGED <<cfgVars, glr, gdr, cli, lv, cwfLog, gdc, enc, gen, par, wiz>>
    \/ OrchWorkflowFileSettled /\ UNCHANGED <<cfgVars, glr, gdr, cli, lv, cwfLog, gdc, enc, gen, par, wiz>>
    \/ OrchVariableThrew /\ UNCHANGED <<cfgVars, glr, gdr, cli, lv, cwfLog, gdc, enc, gen, par, wiz>>
    \/ OrchVariableDone /\ UNCHANGED <<cfgVars, glr, gdr, cli, lv, cwfLog, gdc, enc, gen, par, wiz>>
    \/ OrchVariablesResolved /\ UNCHANGED <<cfgVars, glr, gdr, cli, lv, cwfLog, gdc, enc, gen, par, wiz>>
    \/ OrchSecretsSettled /\ UNCHANGED <<cfgVars, glr, gdr, cli, lv, cwfLog, gdc, enc, gen, par, wiz>>
    \/ OrchRequestAnswered /\ UNCHANGED <<cfgVars, glr, gdr, cli, lv, cwfLog, gdc, enc, gen, par, wiz>>
    \/ OrchRequestFailed /\ UNCHANGED <<cfgVars, glr, gdr, cli, lv, cwfLog, gdc, enc, gen, par, wiz>>

\* Confirm Setup once, then retries, with another writer on the workflow file
NextRetry ==
    \/ \E y \in Contents, vv \in [VarNames -> {Absent, ValueA}],
          sv \in [SecretNames -> {EmptyString, ValueA}] :
          orch.pass = 0 /\ OrchConfirm(y, vv, sv) /\ UNCHANGED <<cfgVars, glr, gdr, cli, lv, cwfLog, gdc, enc, gen, par, wiz>>
    \/ OrchReturn /\ UNCHANGED <<cfgVars, glr, gdr, cli, lv, cwfLog, gdc, enc, gen, par, wiz>>
    \/ OrchSkip /\ UNCHANGED <<cfgVars, glr, gdr, cli, lv, cwfLog, gdc, enc, gen, par, wiz>>
    \/ OrchWorkflowFileStep /\ UNCHANGED <<cfgVars, glr, gdr, cli, lv, cwfLog, gdc, enc, gen, par, wiz>>
    \/ OrchVariablesStep /\ UNCHANGED <<cfgVars, glr, gdr, cli, lv, cwfLog, gdc, enc, gen, par, wiz>>
    \/ \E n \in VarNames : OrchVariableCall(n) /\ UNCHANGED <<cfgVars, glr, gdr, cli, lv, cwfLog, gdc, enc, gen, par, wiz>>
    \/ OrchSecretsStep /\ UNCHANGED <<cfgVars, glr, gdr, cli, lv, cwfLog, gdc, enc, gen, par, wiz>>
    \/ OrchWorkflowFileSettled /\ UNCHANGED <<cfgVars, glr, gdr, cli, lv, cwfLog, gdc, enc, gen, par, wiz>>
    \/ OrchVariableThrew /\ UNCHANGED <<cfgVars, glr, gdr, cli, lv, cwfLog, gdc, enc, gen, par, wiz>>
    \/ OrchVariableDone /\ UNCHANGED <<cfgVars, glr, gdr, cli, lv, cwfLog, gdc, enc, gen, par, wiz>>
    \/ OrchVariablesResolved /\ UNCHANGED <<cfgVars, glr, gdr, cli, lv, cwfLog, gdc, enc, gen, par, wiz>>
    \/ OrchSecretsSettled /\ UNCHANGED <<cfgVars, glr, gdr, cli, lv, cwfLog, gdc, enc, gen, par, wiz>>
    \/ OrchRequestAnswered /\ UNCHANGED <<cfgVars, glr, gdr, cli, lv, cwfLog, gdc, enc, gen, par, wiz>>
    \/ OrchRequestFailed /\ UNCHANGED <<cfgVars, glr, gdr, cli, lv, cwfLog, gdc, enc, gen, par, wiz>>
    \/ \E step \in {"workflowFile", "variables", "secrets"} :
          OrchRetry(step) /\ UNCHANGED <<cfgVars, glr, gdr, cli, lv, cwfLog, gdc, enc, gen, par, wiz>>
    \/ OrchOtherWriter /\ UNCHANGED <<cfgVars, glr, gdr, cli, lv, cwfLog, gdc, enc, gen, par, wiz>>

NumYamls == 1
Yamls == {<<i>> : i \in 1..NumYamls}
InputValues == {EmptyString, ValueA}

Init ==
    /\ remoteFile = NoFile
    /\ cwf = CwfIdle
    /\ remoteVars = [n \in VarNames |-> Absent]
    /\ srv = SrvIdle
    /\ remoteSecrets = [n \in SecretNames |-> Absent]
    /\ sec = [n \in SecretNames |-> SecIdle]
    /\ mode \in {"create", "edit"}
    /\ mounted = TRUE
    /\ selectedTemplateId = "react-vercel"
    /\ generatedYaml = EmptyYaml
    /\ requiredVariables = {}
    /\ requiredSecrets = {}
    /\ variableValues = NoVariableValues
    /\ secretValues = NoSecretValues
    /\ isLoading = FALSE
    /\ isInitialLoading = (mode = "edit")
    /\ isCommitting = FALSE
    /\ commitProgress = initialCommitProgress
    /\ commitError = NoError
    /\ runs = [r \in RunIds |-> RunIdle]
    /\ effectDue = FALSE
    /\ signals = 0
    /\ closeTimer = FALSE
    /\ glr = GlrIdle
    /\ gdr = GdrIdle
    /\ cli = CliIdle
    /\ lv = LvUnmounted
    /\ cwfLog = CwfLogEmpty
    /\ orch = OrchIdle
    /\ gdc = GdcIdle
    /\ enc = EncIdle
    /\ gen = GwIdle
    /\ par = ParIdle
    /\ wiz = WizIdle

Next ==
    \/ \E n \in VarNames, v \in InputValues : HandleVariableChange(n, v)
    \/ \E n \in SecretNames, v \in InputValues : HandleSecretChange(n, v)
    \/ \E y \in Yamls \cup {EmptyYaml} : EditYaml(y)
    \/ \E t \in TemplateIds : HandleTemplateClick(t)
    \/ \E y \in Yamls, vs \in SUBSET VarNames, ss \in SUBSET SecretNames :
          HandleFileChange(y, vs, ss)
    \/ HandleGenerate
    \/ \E y \in Yamls, vs \in SUBSET VarNames, d \in InputValues,
          ss \in SUBSET SecretNames : GenerateDone(y, vs, d, ss)
    \/ GenerateFailed
    \/ \E y \in Yamls, vs \in SUBSET VarNames, d \in InputValues,
          ss \in SUBSET SecretNames : LoadExistingDone(y, vs, d, ss)
    \/ LoadExistingFailed
    \/ HandleConfirmSetup
    \/ \E i \in 1..3 : HandleRetry(Steps[i])
    \/ \E r \in RunIds : RunLoop(r)
    \/ \E r \in RunIds : RunResolved(r)
    \/ \E r \in RunIds, item \in {0} \cup VarNames \cup SecretNames :
          RequestSucceeds(r, item)
    \/ \E r \in RunIds, item \in {0} \cup VarNames \cup SecretNames :
          RequestFails(r, item)
    \/ CompletionEffect
    \/ CloseTimerFires
    \/ Cancel

Spec == Init /\ [][Next]_vars

(***************************************************************************)
(* Specifications of the three service functions                           *)
(***************************************************************************)
InitFile ==
    /\ remoteFile \in Contents \cup {NoFile}
    /\ cwf = CwfIdle
    /\ remoteVars = [n \in VarNames |-> Absent]
    /\ srv = SrvIdle
    /\ remoteSecrets = [n \in SecretNames |-> Absent]
    /\ sec = [n \in SecretNames |-> SecIdle]
    /\ mode = "create"
    /\ mounted = FALSE
    /\ selectedTemplateId = "react-vercel"
    /\ generatedYaml = EmptyYaml
    /\ requiredVariables = {}
    /\ requiredSecrets = {}
    /\ variableValues = NoVariableValues
    /\ secretValues = NoSecretValues
    /\ isLoading = FALSE
    /\ isInitialLoading = FALSE
    /\ isCommitting = FALSE
    /\ commitProgress = initialCommitProgress
    /\ commitError = NoError
    /\ runs = [r \in RunIds |-> RunIdle]
    /\ effectDue = FALSE
    /\ signals = 0
    /\ closeTimer = FALSE
    /\ glr = GlrIdle
    /\ gdr = GdrIdle
    /\ cli = CliIdle
    /\ lv = LvUnmounted
    /\ cwfLog = CwfLogEmpty
    /\ orch = OrchIdle
    /\ gdc = GdcIdle
    /\ enc = EncIdle
    /\ gen = GwIdle
    /\ par = ParIdle
    /\ wiz = WizIdle

InitVar ==
    /\ remoteFile = NoFile
    /\ cwf = CwfIdle
    /\ remoteVars \in [VarNames -> Values \cup {Absent}]
    /\ srv = SrvIdle
    /\ remoteSecrets = [n \in SecretNames |-> Absent]
    /\ sec = [n \in SecretNames |-> SecIdle]
    /\ mode = "create"
    /\ mounted = FALSE
    /\ selectedTemplateId = "react-vercel"
    /\ generatedYaml = EmptyYaml
    /\ requiredVariables = {}
    /\ requiredSecrets = {}
    /\ variableValues = NoVariableValues
    /\ secretValues = NoSecretValues
    /\ isLoading = FALSE
    /\ isInitialLoading = FALSE
    /\ isCommitting = FALSE
    /\ commitProgress = initialCommitProgress
    /\ commitError = NoError
    /\ runs = [r \in RunIds |-> RunIdle]
    /\ effectDue = FALSE
    /\ signals = 0
    /\ closeTimer = FALSE
    /\ glr = GlrIdle
    /\ gdr = GdrIdle
    /\ cli = CliIdle
    /\ lv = LvUnmounted
    /\ cwfLog = CwfLogEmpty
    /\ orch = OrchIdle
    /\ gdc = GdcIdle
    /\ enc = EncIdle
    /\ gen = GwIdle
    /\ par = ParIdle
    /\ wiz = WizIdle

InitSec ==
    /\ remoteFile = NoFile
    /\ cwf = CwfIdle
    /\ remoteVars = [n \in VarNames |-> Absent]
    /\ srv = SrvIdle
    /\ remoteSecrets \in [SecretNames -> {Absent, Seal(1, ValueA)}]
    /\ sec = [n \in SecretNames |-> SecIdle]
    /\ mode = "create"
    /\ mounted = FALSE
    /\ selectedTemplateId = "react-vercel"
    /\ generatedYaml = EmptyYaml
    /\ requiredVariables = {}
    /\ requiredSecrets = {}
    /\ variableValues = NoVariableValues
    /\ secretValues = NoSecretValues
    /\ isLoading = FALSE
    /\ isInitialLoading = FALSE
    /\ isCommitting = FALSE
    /\ commitProgress = initialCommitProgress
    /\ commitError = NoError
    /\ runs = [r \in RunIds |-> RunIdle]
    /\ effectDue = FALSE
    /\ signals = 0
    /\ closeTimer = FALSE
    /\ glr = GlrIdle
    /\ gdr = GdrIdle
    /\ cli = CliIdle
    /\ lv = LvUnmounted
    /\ cwfLog = CwfLogEmpty
    /\ orch = OrchIdle
    /\ gdc = GdcIdle
    /\ enc = EncIdle
    /\ gen = GwIdle
    /\ par = ParIdle
    /\ wiz = WizIdle

SpecFile == InitFile /\ [][NextFile]_vars
SpecVar == InitVar /\ [][NextVar]_vars
SpecSec == InitSec /\ [][NextSec]_vars

InitRunStatus ==
    /\ remoteFile = NoFile
    /\ cwf = CwfIdle
    /\ remoteVars = [n \in VarNames |-> Absent]
    /\ srv = SrvIdle
    /\ remoteSecrets = [n \in SecretNames |-> Absent]
    /\ sec = [n \in SecretNames |-> SecIdle]
    /\ mode = "create"
    /\ mounted = FALSE
    /\ selectedTemplateId = "react-vercel"
    /\ generatedYaml = EmptyYaml
    /\ requiredVariables = {}
    /\ requiredSecrets = {}
    /\ variableValues = NoVariableValues
    /\ secretValues = NoSecretValues
    /\ isLoading = FALSE
    /\ isInitialLoading = FALSE
    /\ isCommitting = FALSE
    /\ commitProgress = initialCommitProgress
    /\ commitError = NoError
    /\ runs = [r \in RunIds |-> RunIdle]
    /\ effectDue = FALSE
    /\ signals = 0
    /\ closeTimer = FALSE
    /\ glr = GlrIdle
    /\ gdr = GdrIdle
    /\ cli = CliIdle
    /\ lv = LvUnmounted
    /\ cwfLog = CwfLogEmpty
    /\ orch = OrchIdle
    /\ gdc = GdcIdle
    /\ enc = EncIdle
    /\ gen = GwIdle
    /\ par = ParIdle
    /\ wiz = WizIdle

SpecRunStatus == InitRunStatus /\ [][NextRunStatus]_vars

InitDeployments ==
    /\ remoteFile = NoFile
    /\ cwf = CwfIdle
    /\ remoteVars = [n \in VarNames |-> Absent]
    /\ srv = SrvIdle
    /\ remoteSecrets = [n \in SecretNames |-> Absent]
    /\ sec = [n \in SecretNames |-> SecIdle]
    /\ mode = "create"
    /\ mounted = FALSE
    /\ selectedTemplateId = "react-vercel"
    /\ generatedYaml = EmptyYaml
    /\ requiredVariables = {}
    /\ requiredSecrets = {}
    /\ variableValues = NoVariableValues
    /\ secretValues = NoSecretValues
    /\ isLoading = FALSE
    /\ isInitialLoading = FALSE
    /\ isCommitting = FALSE
    /\ commitProgress = initialCommitProgress
    /\ commitError = NoError
    /\ runs = [r \in RunIds |-> RunIdle]
    /\ effectDue = FALSE
    /\ signals = 0
    /\ closeTimer = FALSE
    /\ glr = GlrIdle
    /\ cli = CliIdle
    /\ lv = LvUnmounted
    /\ cwfLog = CwfLogEmpty
    /\ orch = OrchIdle
    /\ gdc = GdcIdle
    /\ enc = EncIdle
    /\ gen = GwIdle
    /\ par = ParIdle
    /\ wiz = WizIdle
    /\ gdr \in {[GdrIdle EXCEPT !.pc = "called", !.sha = s, !.allRuns = l] : s \in CommitShas \cup {EmptySha}, l \in RunLists}

SpecDeployments == InitDeployments /\ [][NextDeployments]_vars

InitCli ==
    /\ remoteFile = NoFile
    /\ cwf = CwfIdle
    /\ remoteVars = [n \in VarNames |-> Absent]
    /\ srv = SrvIdle
    /\ remoteSecrets = [n \in SecretNames |-> Absent]
    /\ sec = [n \in SecretNames |-> SecIdle]
    /\ mode = "create"
    /\ mounted = FALSE
    /\ selectedTemplateId = "react-vercel"
    /\ generatedYaml = EmptyYaml
    /\ requiredVariables = {}
    /\ requiredSecrets = {}
    /\ variableValues = NoVariableValues
    /\ secretValues = NoSecretValues
    /\ isLoading = FALSE
    /\ isInitialLoading = FALSE
    /\ isCommitting = FALSE
    /\ commitProgress = initialCommitProgress
    /\ commitError = NoError
    /\ runs = [r \in RunIds |-> RunIdle]
    /\ effectDue = FALSE
    /\ signals = 0
    /\ closeTimer = FALSE
    /\ glr = GlrIdle
    /\ gdr = GdrIdle
    /\ lv = LvUnmounted
    /\ cwfLog = CwfLogEmpty
    /\ orch = OrchIdle
    /\ gdc = GdcIdle
    /\ enc = EncIdle
    /\ gen = GwIdle
    /\ par = ParIdle
    /\ wiz = WizIdle
    /\ cli \in {[CliIdle EXCEPT !.pc = "request", !.method = m, !.command = c, !.token = t] : m \in Methods, c \in CommandTexts \cup {NotAString}, t \in TokenTexts \cup {NotAString}}

SpecCli == InitCli /\ [][NextCli]_vars

InitLog ==
    /\ remoteFile = NoFile
    /\ cwf = CwfIdle
    /\ remoteVars = [n \in VarNames |-> Absent]
    /\ srv = SrvIdle
    /\ remoteSecrets = [n \in SecretNames |-> Absent]
    /\ sec = [n \in SecretNames |-> SecIdle]
    /\ mode = "create"
    /\ mounted = FALSE
    /\ selectedTemplateId = "react-vercel"
    /\ generatedYaml = EmptyYaml
    /\ requiredVariables = {}
    /\ requiredSecrets = {}
    /\ variableValues = NoVariableValues
    /\ secretValues = NoSecretValues
    /\ isLoading = FALSE
    /\ isInitialLoading = FALSE
    /\ isCommitting = FALSE
    /\ commitProgress = initialCommitProgress
    /\ commitError = NoError
    /\ runs = [r \in RunIds |-> RunIdle]
    /\ effectDue = FALSE
    /\ signals = 0
    /\ closeTimer = FALSE
    /\ glr = GlrIdle
    /\ gdr = GdrIdle
    /\ cli = CliIdle
    /\ lv = LvUnmounted
    /\ cwfLog = CwfLogEmpty
    /\ orch = OrchIdle
    /\ gdc = GdcIdle
    /\ enc = EncIdle
    /\ gen = GwIdle
    /\ par = ParIdle
    /\ wiz = WizIdle

SpecLog == InitLog /\ [][NextLog]_vars

InitFileSeq ==
    /\ remoteFile \in Contents \cup {NoFile}
    /\ cwf = CwfIdle
    /\ remoteVars = [n \in VarNames |-> Absent]
    /\ srv = SrvIdle
    /\ remoteSecrets = [n \in SecretNames |-> Absent]
    /\ sec = [n \in SecretNames |-> SecIdle]
    /\ mode = "create"
    /\ mounted = FALSE
    /\ selectedTemplateId = "react-vercel"
    /\ generatedYaml = EmptyYaml
    /\ requiredVariables = {}
    /\ requiredSecrets = {}
    /\ variableValues = NoVariableValues
    /\ secretValues = NoSecretValues
    /\ isLoading = FALSE
    /\ isInitialLoading = FALSE
    /\ isCommitting = FALSE
    /\ commitProgress = initialCommitProgress
    /\ commitError = NoError
    /\ runs = [r \in RunIds |-> RunIdle]
    /\ effectDue = FALSE
    /\ signals = 0
    /\ closeTimer = FALSE
    /\ glr = GlrIdle
    /\ gdr = GdrIdle
    /\ cli = CliIdle
    /\ lv = LvUnmounted
    /\ cwfLog = CwfLogEmpty
    /\ orch = OrchIdle
    /\ gdc = GdcIdle
    /\ enc = EncIdle
    /\ gen = GwIdle
    /\ par = ParIdle
    /\ wiz = WizIdle

SpecFileSeq == InitFileSeq /\ [][NextFileSeq]_vars

InitRerun ==
    /\ remoteFile \in Contents \cup {NoFile}
    /\ cwf = CwfIdle
    /\ remoteVars \in [VarNames -> {Absent, ValueA}]
    /\ srv = SrvIdle
    /\ remoteSecrets = [n \in SecretNames |-> Absent]
    /\ sec = [n \in SecretNames |-> SecIdle]
    /\ mode = "create"
    /\ mounted = FALSE
    /\ selectedTemplateId = "react-vercel"
    /\ generatedYaml = EmptyYaml
    /\ requiredVariables = {}
    /\ requiredSecrets = {}
    /\ variableValues = NoVariableValues
    /\ secretValues = NoSecretValues
    /\ isLoading = FALSE
    /\ isInitialLoading = FALSE
    /\ isCommitting = FALSE
    /\ commitProgress = initialCommitProgress
    /\ commitError = NoError
    /\ runs = [r \in RunIds |-> RunIdle]
    /\ effectDue = FALSE
    /\ signals = 0
    /\ closeTimer = FALSE
    /\ glr = GlrIdle
    /\ gdr = GdrIdle
    /\ cli = CliIdle
    /\ lv = LvUnmounted
    /\ cwfLog = CwfLogEmpty
    /\ orch = OrchIdle
    /\ gdc = GdcIdle
    /\ enc = EncIdle
    /\ gen = GwIdle
    /\ par = ParIdle
    /\ wiz = WizIdle

SpecRerun == InitRerun /\ [][NextRerun]_vars

InitDeploymentList ==
    /\ remoteFile = NoFile
    /\ cwf = CwfIdle
    /\ remoteVars = [n \in VarNames |-> Absent]
    /\ srv = SrvIdle
    /\ remoteSecrets = [n \in SecretNames |-> Absent]
    /\ sec = [n \in SecretNames |-> SecIdle]
    /\ mode = "create"
    /\ mounted = FALSE
    /\ selectedTemplateId = "react-vercel"
    /\ generatedYaml = EmptyYaml
    /\ requiredVariables = {}
    /\ requiredSecrets = {}
    /\ variableValues = NoVariableValues
    /\ secretValues = NoSecretValues
    /\ isLoading = FALSE
    /\ isInitialLoading = FALSE
    /\ isCommitting = FALSE
    /\ commitProgress = initialCommitProgress
    /\ commitError = NoError
    /\ runs = [r \in RunIds |-> RunIdle]
    /\ effectDue = FALSE
    /\ signals = 0
    /\ closeTimer = FALSE
    /\ glr = GlrIdle
    /\ gdr = GdrIdle
    /\ cli = CliIdle
    /\ lv = LvUnmounted
    /\ cwfLog = CwfLogEmpty
    /\ orch = OrchIdle
    /\ gdc = GdcIdle
    /\ enc = EncIdle
    /\ gen = GwIdle
    /\ par = ParIdle
    /\ wiz = WizIdle

SpecDeploymentList == InitDeploymentList /\ [][NextDeploymentList]_vars

InitRetry ==
    /\ remoteFile \in {NoFile, <<1>>}
    /\ cwf = CwfIdle
    /\ remoteVars = [n \in VarNames |-> Absent]
    /\ srv = SrvIdle
    /\ remoteSecrets = [n \in SecretNames |-> Absent]
    /\ sec = [n \in SecretNames |-> SecIdle]
    /\ mode = "create"
    /\ mounted = FALSE
    /\ selectedTemplateId = "react-vercel"
    /\ generatedYaml = EmptyYaml
    /\ requiredVariables = {}
    /\ requiredSecrets = {}
    /\ variableValues = NoVariableValues
    /\ secretValues = NoSecretValues
    /\ isLoading = FALSE
    /\ isInitialLoading = FALSE
    /\ isCommitting = FALSE
    /\ commitProgress = initialCommitProgress
    /\ commitError = NoError
    /\ runs = [r \in RunIds |-> RunIdle]
    /\ effectDue = FALSE
    /\ signals = 0
    /\ closeTimer = FALSE
    /\ glr = GlrIdle
    /\ gdr = GdrIdle
    /\ cli = CliIdle
    /\ lv = LvUnmounted
    /\ cwfLog = CwfLogEmpty
    /\ orch = OrchIdle
    /\ gdc = GdcIdle
    /\ enc = EncIdle
    /\ gen = GwIdle
    /\ par = ParIdle
    /\ wiz = WizIdle

SpecRetry == InitRetry /\ [][NextRetry]_vars

InitEncrypt ==
    /\ remoteFile = NoFile
    /\ cwf = CwfIdle
    /\ remoteVars = [n \in VarNames |-> Absent]
    /\ srv = SrvIdle
    /\ remoteSecrets = [n \in SecretNames |-> Absent]
    /\ sec = [n \in SecretNames |-> SecIdle]
    /\ mode = "create"
    /\ mounted = FALSE
    /\ selectedTemplateId = "react-vercel"
    /\ generatedYaml = EmptyYaml
    /\ requiredVariables = {}
    /\ requiredSecrets = {}
    /\ variableValues = NoVariableValues
    /\ secretValues = NoSecretValues
    /\ isLoading = FALSE
    /\ isInitialLoading = FALSE
    /\ isCommitting = FALSE
    /\ commitProgress = initialCommitProgress
    /\ commitError = NoError
    /\ runs = [r \in RunIds |-> RunIdle]
    /\ effectDue = FALSE
    /\ signals = 0
    /\ closeTimer = FALSE
    /\ glr = GlrIdle
    /\ gdr = GdrIdle
    /\ cli = CliIdle
    /\ lv = LvUnmounted
    /\ cwfLog = CwfLogEmpty
    /\ orch = OrchIdle
    /\ gdc = GdcIdle
    /\ enc = EncIdle
    /\ gen = GwIdle
    /\ par = ParIdle
    /\ wiz = WizIdle

SpecEncrypt == InitEncrypt /\ [][NextEncrypt]_vars

InitGenerate ==
    /\ remoteFile = NoFile
    /\ cwf = CwfIdle
    /\ remoteVars = [n \in VarNames |-> Absent]
    /\ srv = SrvIdle
    /\ remoteSecrets = [n \in SecretNames |-> Absent]
    /\ sec = [n \in SecretNames |-> SecIdle]
    /\ mode = "create"
    /\ mounted = FALSE
    /\ selectedTemplateId = "react-vercel"
    /\ generatedYaml = EmptyYaml
    /\ requiredVariables = {}
    /\ requiredSecrets = {}
    /\ variableValues = NoVariableValues
    /\ secretValues = NoSecretValues
    /\ isLoading = FALSE
    /\ isInitialLoading = FALSE
    /\ isCommitting = FALSE
    /\ commitProgress = initialCommitProgress
    /\ commitError = NoError
    /\ runs = [r \in RunIds |-> RunIdle]
    /\ effectDue = FALSE
    /\ signals = 0
    /\ closeTimer = FALSE
    /\ glr = GlrIdle
    /\ gdr = GdrIdle
    /\ cli = CliIdle
    /\ lv = LvUnmounted
    /\ cwfLog = CwfLogEmpty
    /\ orch = OrchIdle
    /\ gdc = GdcIdle
    /\ enc = EncIdle
    /\ gen = GwIdle
    /\ par = ParIdle
    /\ wiz = WizIdle

SpecGenerate == InitGenerate /\ [][NextGenerate]_vars

InitParallel ==
    /\ remoteFile = NoFile
    /\ cwf = CwfIdle
    /\ remoteVars = [n \in VarNames |-> Absent]
    /\ srv = SrvIdle
    /\ remoteSecrets = [n \in SecretNames |-> Absent]
    /\ sec = [n \in SecretNames |-> SecIdle]
    /\ mode = "create"
    /\ mounted = FALSE
    /\ selectedTemplateId = "react-vercel"
    /\ generatedYaml = EmptyYaml
    /\ requiredVariables = {}
    /\ requiredSecrets = {}
    /\ variableValues = NoVariableValues
    /\ secretValues = NoSecretValues
    /\ isLoading = FALSE
    /\ isInitialLoading = FALSE
    /\ isCommitting = FALSE
    /\ commitProgress = initialCommitProgress
    /\ commitError = NoError
    /\ runs = [r \in RunIds |-> RunIdle]
    /\ effectDue = FALSE
    /\ signals = 0
    /\ closeTimer = FALSE
    /\ glr = GlrIdle
    /\ gdr = GdrIdle
    /\ cli = CliIdle
    /\ lv = LvUnmounted
    /\ cwfLog = CwfLogEmpty
    /\ orch = OrchIdle
    /\ gdc = GdcIdle
    /\ enc = EncIdle
    /\ gen = GwIdle
    /\ par = ParIdle
    /\ wiz = WizIdle

SpecParallel == InitParallel /\ [][NextParallel]_vars

InitWizard ==
    /\ remoteFile = NoFile
    /\ cwf = CwfIdle
    /\ remoteVars = [n \in VarNames |-> Absent]
    /\ srv = SrvIdle
    /\ remoteSecrets = [n \in SecretNames |-> Absent]
    /\ sec = [n \in SecretNames |-> SecIdle]
    /\ mode = "create"
    /\ mounted = FALSE
    /\ selectedTemplateId = "react-vercel"
    /\ generatedYaml = EmptyYaml
    /\ requiredVariables = {}
    /\ requiredSecrets = {}
    /\ variableValues = NoVariableValues
    /\ secretValues = NoSecretValues
    /\ isLoading = FALSE
    /\ isInitialLoading = FALSE
    /\ isCommitting = FALSE
    /\ commitProgress = initialCommitProgress
    /\ commitError = NoError
    /\ runs = [r \in RunIds |-> RunIdle]
    /\ effectDue = FALSE
    /\ signals = 0
    /\ closeTimer = FALSE
    /\ glr = GlrIdle
    /\ gdr = GdrIdle
    /\ cli = CliIdle
    /\ lv = LvUnmounted
    /\ cwfLog = CwfLogEmpty
    /\ orch = OrchIdle
    /\ gdc = GdcIdle
    /\ enc = EncIdle
    /\ gen = GwIdle
    /\ par = ParIdle
    /\ wiz = WizIdle

SpecWizard == InitWizard /\ [][NextWizard]_vars

\* Every request of handleCommit is eventually answered or fails
SpecWizardFair == InitWizard /\ [][NextWizard]_vars /\ WF_wiz(WizCommitSettles)

(***************************************************************************)
(* Properties of the service functions                                     *)
(***************************************************************************)

\* C1: createWorkflowFile is compare-and-swap.  Whenever its PUT reaches the
\* remote while the remote file's sha differs from the sha the call captured
\* at its GET (none, for a file it did not find), the PUT is rejected, the
\* call throws, and the remote file is left as the other writer made it.
C1_CasSafety ==
    [][(cwf.pc = "put" /\ cwf'.pc # "put" /\ ShaOf(remoteFile) # cwf.sha)
         => (cwf'.pc = "threw" /\ cwf'.error # NoError /\ remoteFile' = remoteFile)]_vars

\* A call that read a sha, lost the race to another writer and threw
C1_Witness ==
    /\ cwf.pc = "threw" /\ cwf.putSent /\ cwf.stale /\ cwf.gotSha
    /\ remoteFile # NoFile /\ remoteFile # cwf.content

\* C5: setRepositoryVariable never repeats a request, issues a POST only after
\* its PATCH, and when it returns normally the remote value is the given value
\* after exactly one PATCH and no POST if the variable existed, and after
\* exactly one (failed) PATCH and exactly one POST if it did not.
C5_UpdateThenCreate ==
    /\ srv.patches <= 1 /\ srv.posts <= 1
    /\ srv.posts = 1 => srv.patches = 1
    /\ srv.pc = "post" => (srv.patches = 1 /\ srv.posts = 0)
    /\ srv.pc = "done" =>
         /\ remoteVars[srv.name] = srv.value
         /\ srv.patches = 1
         /\ srv.posts = (IF srv.existed THEN 0 ELSE 1)

\* A variable that did not exist was created by the fallback POST
C5_Witness ==
    /\ srv.pc = "done" /\ ~srv.existed /\ srv.posts = 1 /\ srv.patchStatus = 404
    /\ remoteVars[srv.name] = srv.value

\* C6: setRepositoryVariable issues the POST only when the PATCH failed with
\* HTTP 404; after any other failure of the PATCH no POST is issued and the
\* call throws the PATCH's error.
C6_FallbackOnlyOn404 ==
    /\ (srv.posts > 0 \/ srv.pc = "post") => srv.patchStatus = 404
    /\ (srv.patchStatus \in FailStatuses /\ srv.pc # "idle")
         => (srv.pc = "threw" /\ srv.posts = 0)

\* C7: a secret whose plaintext is empty causes no public-key fetch, no call
\* to the encrypt endpoint and no secret PUT, called directly or through
\* executeSecretsStep, and the remote secret of that name is unchanged.
C7_EmptySecretSkip ==
    \A n \in SecretNames :
        (sec[n].pc # "idle" /\ sec[n].value = EmptyString) =>
            /\ sec[n].keyFetches = 0 /\ sec[n].sealCalls = 0 /\ sec[n].puts = 0
            /\ sec[n].pc = "done"
            /\ remoteSecrets[n] = sec[n].before

\* A direct call with an empty value returned and left an existing secret alone
C7_Witness ==
    \E n \in SecretNames :
        /\ sec[n].pc = "done" /\ sec[n].value = EmptyString /\ sec[n].via = "direct"
        /\ remoteSecrets[n] # Absent


(***************************************************************************)
(* Properties of the PipelineConfigurator                                  *)
(***************************************************************************)

\* The executor awaited by run r has thrown in this step
ExecutorThrew(r) == runs[r].pc = "await" /\ runs'[r].pc = "returned"

\* Run r takes a step of its own
RunMoves(r) == runs'[r] # runs[r]

\* Run r is started by this step (Confirm Setup or a Retry button)
RunStarts(r) == runs[r].pc = "idle" /\ runs'[r].pc = "loop"

\* Run r calls the executor of the step it is at
InvokesExecutor(r) == runs[r].pc = "loop" /\ runs'[r].pc \in {"await", "resolved"}

\* C2: when the executor of step i throws, step i is marked 'error', the run
\* has returned and takes no further step (so it invokes no later executor),
\* and every later step is still 'pending'.
C2_HaltOnFailure ==
    [][\A r \in RunIds :
          /\ ExecutorThrew(r) =>
                /\ commitProgress'[Steps[runs[r].i]] = "error"
                /\ \A j \in (runs[r].i + 1)..3 : commitProgress'[Steps[j]] = "pending"
          /\ runs[r].pc = "returned" => ~RunMoves(r)]_vars

\* C3: a run started by handleRetry('variables') from [success, error,
\* pending] starts at the variables step, never invokes the workflowFile
\* executor, invokes the variables executor, and when that resolves marks
\* variables 'success' and goes on to the secrets step.
C3_ResumeCorrectness ==
    [][\A r \in RunIds :
          (runs'[r].resumed /\ RunMoves(r)) =>
             /\ RunStarts(r) => runs'[r].i = StepIndex("variables")
             /\ InvokesExecutor(r) => Steps[runs[r].i] # "workflowFile"
             /\ (runs[r].pc = "loop" /\ runs[r].i = 2) =>
                   (InvokesExecutor(r) /\ runs'[r].i = 2)
             /\ (runs[r].pc = "resolved" /\ runs[r].i = 2) =>
                   /\ commitProgress'.variables = "success"
                   /\ runs'[r].pc = "loop" /\ runs'[r].i = StepIndex("secrets")
             /\ (runs[r].pc = "loop" /\ runs[r].i = 3) =>
                   \/ InvokesExecutor(r) /\ runs'[r].i = 3
                   \/ runs'[r].i = 4 /\ commitProgress'.secrets = "success"]_vars

\* A resumed run has passed the variables step and awaits the secrets executor
C3_Witness ==
    \E r \in RunIds :
       /\ runs[r].resumed /\ runs[r].pc = "await" /\ runs[r].i = 3
       /\ commitProgress.workflowFile = "success"
       /\ commitProgress.variables = "success"

\* C4: onPipelineConfigured is called at most once for one completed attempt.
C4_SignaledOnce == signals <= 1

\* C8: whenever onPipelineConfigured is called, workflowFile is 'success' and
\* no step is 'error' or 'in-progress'.
C8_SignalOnlyWhenAllSuccess ==
    [][signals' > signals =>
          /\ commitProgress.workflowFile = "success"
          /\ \A i \in 1..3 : commitProgress[Steps[i]] \notin {"error", "in-progress"}]_vars

\* The moves of one step's state that an attempt may make
MonotonicMoves ==
    {<<"pending", "in-progress">>, <<"in-progress", "success">>,
     <<"in-progress", "error">>}

\* C9: a step only moves pending -> in-progress -> success | error (a
\* zero-item step goes from pending to success at once, and starting a run or
\* choosing another template puts steps back to pending); a run is started at
\* a step only when that step is 'error' or 'pending', and starting it leaves
\* the earlier steps as they are.
C9_MonotonicSteps ==
    [][/\ \A i \in 1..3 :
             \/ commitProgress'[Steps[i]] = commitProgress[Steps[i]]
             \/ <<commitProgress[Steps[i]], commitProgress'[Steps[i]]>> \in MonotonicMoves
             \/ /\ i > 1
                /\ commitProgress[Steps[i]] = "pending"
                /\ commitProgress'[Steps[i]] = "success"
                /\ \E r \in RunIds : runs[r].pc = "loop" /\ runs[r].i = i
                                      /\ runs'[r].i = i + 1
             \/ /\ commitProgress'[Steps[i]] = "pending"
                /\ \/ \E r \in RunIds : RunStarts(r) /\ runs'[r].i <= i
                   \/ selectedTemplateId' # selectedTemplateId
       /\ \A r \in RunIds :
             RunStarts(r) =>
                /\ commitProgress[Steps[runs'[r].i]] \in {"error", "pending"}
                /\ \A j \in 1..(runs'[r].i - 1) :
                      commitProgress'[Steps[j]] = commitProgress[Steps[j]]]_vars

\* C10: a step whose executor would have nothing to apply is marked 'success'
\* without the executor being invoked, and a step with something to apply is
\* never marked 'success' without its executor being invoked.
C10_ZeroItemsNoExecutor ==
    [][\A r \in RunIds :
          (runs[r].pc = "loop" /\ runs[r].i \in 2..3 /\ RunMoves(r)) =>
             IF StepItems(Steps[runs[r].i], runs[r]) = {}
             THEN ~InvokesExecutor(r) /\ commitProgress'[Steps[runs[r].i]] = "success"
             ELSE InvokesExecutor(r)]_vars

(***************************************************************************)
(* Properties of the status, deployment, command and log functions         *)
(***************************************************************************)

\* The table of the derived status: external status, conclusion -> status
ConclusionTable ==
    [success |-> "Success", failure |-> "Failure", cancelled |-> "Cancelled",
     skipped |-> "Skipped", timed_out |-> "TimedOut", neutral |-> "Neutral",
     action_required |-> "ActionRequired"]

\* C11: getLatestWorkflowRun never throws, and for a run it returns queued ->
\* Queued, in_progress -> InProgress (whatever the conclusion), completed
\* with a listed conclusion -> the status of that conclusion, completed with
\* any other or null conclusion -> Completed, any other status -> Unknown.
C11_StatusMapping ==
    /\ glr.pc \in {"idle", "request", "returned"}
    /\ (glr.pc = "returned" /\ glr.status \in ExternalStatuses) =>
          /\ glr.status = "queued" => glr.result.status = "Queued"
          /\ glr.status = "in_progress" => glr.result.status = "InProgress"
          /\ (glr.status = "completed" /\ glr.conclusion \in DOMAIN ConclusionTable)
                => glr.result.status = ConclusionTable[glr.conclusion]
          /\ (glr.status = "completed" /\ glr.conclusion \notin DOMAIN ConclusionTable)
                => glr.result.status = "Completed"
          /\ glr.status \notin {"queued", "in_progress", "completed"}
                => glr.result.status = "Unknown"

\* A completed run with conclusion timed_out has been returned as TimedOut
C11_Witness ==
    /\ glr.pc = "returned" /\ glr.status = "completed"
    /\ glr.conclusion = "timed_out" /\ glr.result.status = "TimedOut"

\* C12: a deployment whose runs request answered an empty list is returned
\* with runId undefined; one whose commit has a run is returned with the id
\* of the most recent run of that commit, which is never the undefined value.
C12_AbsenceTolerance ==
    (gdr.listed) =>
       /\ gdr.pc = "returned"
       /\ (\A i \in 1..Len(gdr.allRuns) : gdr.allRuns[i].head_sha # gdr.sha)
             => gdr.runId = Undefined
       /\ \A i \in 1..Len(gdr.allRuns) :
             (/\ gdr.allRuns[i].head_sha = gdr.sha
              /\ \A j \in 1..(i - 1) : gdr.allRuns[j].head_sha # gdr.sha)
                => gdr.runId = gdr.allRuns[i].id /\ gdr.runId # Undefined

\* A deployment correlated with the most recent of two runs of its commit
C12_Witness ==
    /\ gdr.pc = "returned" /\ gdr.listed
    /\ Len(gdr.allRuns) = 2
    /\ gdr.allRuns[1].head_sha = gdr.sha /\ gdr.allRuns[2].head_sha = gdr.sha
    /\ gdr.allRuns[1].id # gdr.allRuns[2].id
    /\ gdr.runId = gdr.allRuns[1].id

\* C13: when the variables executor is invoked, a request is started for
\* every entry of variableValues, the entries with an empty value included.
C13_EmptyVariablesApplied ==
    [][\A r \in RunIds :
          (InvokesExecutor(r) /\ Steps[runs[r].i] = "variables") =>
             runs'[r].inflight = {n \in VarNames : runs[r].vv[n] # Absent}]_vars

\* The read-only subcommand sequences of each tool
ReadOnlyPrefixes ==
    [vercel |-> {<<"projects", "list">>, <<"domains", "ls">>, <<"logs">>,
                 <<"deployments", "ls">>},
     railway |-> {<<"projects">>, <<"services">>, <<"logs">>, <<"status">>}]

\* The words of a text: its maximal runs of non-blank atoms, in order
WordsOf(text) == SplitWords(text, <<>>, <<>>)

C15_PollingStopsWhenTerminal ==
    [][(lv'.fetches > lv.fetches /\ lv'.lastFetch = "tick") => IsPolling(lv.status)]_vars

\* C16: of two calls made in sequence with the same content and no other
\* writer, the first having succeeded, the second sends the sha the first
\* produced, does not throw unless a request of it fails for a reason of its
\* own, and leaves the remote file as the first call left it.
C16_Idempotence ==
    \A k \in 1..(Len(cwfLog.calls) - 1) :
       LET first == cwfLog.calls[k]
           second == cwfLog.calls[k + 1]
       IN  (first.pc = "done" /\ second.content = first.content) =>
              /\ second.remote = first.remote
              /\ DecodeContent(EncodeContent(first.content)) = first.remote
              /\ ~second.failed =>
                    /\ second.pc = "done"
                    /\ second.sha = ShaOf(first.remote)

\* Two calls with the same content have both succeeded
C16_Witness ==
    /\ Len(cwfLog.calls) = 2
    /\ cwfLog.calls[1].pc = "done" /\ cwfLog.calls[2].pc = "done"
    /\ cwfLog.calls[1].content = cwfLog.calls[2].content
    /\ cwfLog.calls[2].sha # NoSha


(***************************************************************************)
(* Properties of the repeated orchestration                                *)
(***************************************************************************)
\* An orchestration that completed is run again with the inputs it had
OrchRerunSameInputs == orch.pass >= 2 /\ orch.prev = OrchInputs

\* C17: when a completed orchestration is run again with the same workflow
\* text, variable values and secret values, every variable holds the value it
\* held before the second run and every secret opens to the value it opened to
\* before, at every moment of the second run and after it; and the second run
\* ends with all steps 'success' unless one of its own requests failed.
C17_RerunIdempotent ==
    OrchRerunSameInputs =>
       /\ \A n \in VarNames : remoteVars[n] = orch.before.vars[n]
       /\ \A n \in SecretNames :
             Unseal(remoteSecrets[n]) = Unseal(orch.before.secrets[n])
       /\ remoteFile = orch.before.file
       /\ (orch.pc = "idle" /\ ~orch.failed) => OrchAllSuccess

\* The second run with the same inputs has ended with all steps success after
\* having applied a variable and a secret again
C17_Witness ==
    /\ OrchRerunSameInputs /\ orch.pc = "idle" /\ OrchAllSuccess
    /\ \E n \in VarNames : orch.vv[n] \in Values /\ remoteVars[n] = orch.vv[n]
    /\ \E n \in SecretNames : orch.sv[n] \in Values /\ Unseal(remoteSecrets[n]) = orch.sv[n]


\* C18: a setRepositorySecret call that has issued the secret PUT has fetched
\* the public key once within that call, the PUT body holds the value sealed
\* for the key that fetch returned together with its key id, the sealed
\* value is not the plaintext value, and what the repository host stores is
\* never a plaintext value.
C18_KeyFetchedAndOnlyCiphertextSent ==
    \A n \in SecretNames :
       /\ remoteSecrets[n] \notin Values \cup {EmptyString}
       /\ sec[n].puts > 0 =>
             LET body == SecretPutBody(sec[n]) IN
             /\ sec[n].keyFetches = 1 /\ sec[n].sealCalls = 1
             /\ body.key_id \in KeyIds
             /\ body.encrypted_value = Seal(body.key_id, sec[n].value)
             /\ body.encrypted_value # sec[n].value

\* A call has PUT a secret sealed for the second key
C18_Witness ==
    \E n \in SecretNames :
       /\ sec[n].pc = "done" /\ sec[n].puts = 1 /\ sec[n].keyId = 2
       /\ remoteSecrets[n] = Seal(2, sec[n].value)


(***************************************************************************)
(* Order of the steps and reset of the progress                            *)
(***************************************************************************)
\* The step before the one a run is at has been marked 'success' when the run
\* calls the executor of its step
StepBeforeSucceeded ==
    [][\A r \in RunIds :
          (InvokesExecutor(r) /\ runs[r].i > 1) =>
             commitProgress[Steps[runs[r].i - 1]] = "success"]_vars

\* C19: a run calls the variables executor only with workflowFile 'success'
\* and the secrets executor only with variables 'success', and no run calls
\* the secrets executor while the workflow file commit is in 'error'.
C19_StrictOrder ==
    [][\A r \in RunIds :
          InvokesExecutor(r) =>
             /\ runs[r].i > 1 => commitProgress[Steps[runs[r].i - 1]] = "success"
             /\ Steps[runs[r].i] = "secrets" => commitProgress.workflowFile # "error"]_vars


\* C20: the step that starts a run at step i leaves every step from i onward
\* 'pending' and every step before i as it was, before the run executes
\* anything; and a run never goes back to a step before the one it is at, so
\* the executors of the steps before i are not called by it.
C20_ResetFromStepOnward ==
    [][\A r \in RunIds :
          /\ RunStarts(r) =>
                \A j \in 1..3 :
                   commitProgress'[Steps[j]] =
                      IF j >= runs'[r].i THEN "pending" ELSE commitProgress[Steps[j]]
          /\ (runs[r].pc # "idle" /\ RunMoves(r) /\ runs'[r].pc # "returned") =>
                runs'[r].i >= runs[r].i]_vars

\* A run started by Retry on the variables step has reset the progress and
\* has not executed anything yet: workflowFile is still 'success'
C20_Witness ==
    \E r \in RunIds :
       /\ runs[r].resumed /\ runs[r].pc = "loop" /\ runs[r].i = 2
       /\ commitProgress = [workflowFile |-> "success", variables |-> "pending",
                            secrets |-> "pending"]
       /\ commitError = NoError


(***************************************************************************)
(* Read phase of createWorkflowFile                                        *)
(***************************************************************************)
\* C22: when the GET of createWorkflowFile is answered, a 200 leads to the PUT
\* with the sha of the file the GET read, a 404 leads to the PUT without a
\* sha, and any other status makes the call throw without a PUT; a PUT is
\* sent only after a GET answered 200 or 404.
C22_ReadPhase ==
    [][/\ (cwf.pc = "get" /\ cwf'.pc # "get") =>
             CASE cwf'.getStatus = 200 ->
                     cwf'.pc = "put" /\ cwf'.sha = ShaOf(remoteFile)
               [] cwf'.getStatus = 404 ->
                     cwf'.pc = "put" /\ cwf'.sha = NoSha
               [] OTHER ->
                     cwf'.pc = "threw" /\ cwf'.error # NoError /\ ~cwf'.putSent
       /\ cwf'.putSent => cwf'.getStatus \in {200, 404}]_vars


(***************************************************************************)
(* Properties of the call over all deployments                             *)
(***************************************************************************)
\* C24: the call rejects only when the deployments list request failed; when
\* it resolves, the result holds exactly the deployments whose statuses
\* request did not fail, and a deployment whose run lookup failed is in the
\* result with runId undefined.
C24_PerDeploymentIsolation ==
    /\ gdc.pc = "rejected" => gdc.listFailed
    /\ (gdc.pc = "map" /\ AllSettled(gdc.deps)) => CallOutcome(gdc.deps) = "resolved"
    /\ gdc.pc = "resolved" =>
          /\ gdc.result = {d \in DepIds : ~gdc.deps[d].statusesFailed}
          /\ \A d \in DepIds :
                gdc.deps[d].runsFailed =>
                   d \in gdc.result /\ gdc.deps[d].runId = Undefined

\* The call resolved with one deployment dropped and the other one returned
\* although its run lookup failed
C24_Witness ==
    /\ gdc.pc = "resolved"
    /\ Cardinality(gdc.result) = NumDeps - 1
    /\ \E d \in DepIds : gdc.deps[d].statusesFailed
    /\ \E d \in gdc.result : gdc.deps[d].runsFailed


(***************************************************************************)
(* Runs of one configurator at the same time                               *)
(***************************************************************************)
\* A runSteps execution that has started and not returned
RunInProgress(r) == runs[r].pc \in {"loop", "await", "resolved"}

\* C27: at most one runSteps execution of the configurator is in progress.
C27_SingleFlight == Cardinality({r \in RunIds : RunInProgress(r)}) <= 1


(***************************************************************************)
(* Retry of the workflow file step after a conflict                        *)
(***************************************************************************)
\* The run in progress was started by handleRetry('workflowFile') after the
\* step failed on a stale sha, and nobody else has written since it started
RetryAfterConflict == orch.retryOfConflict /\ ~orch.interfered

\* C23: in a run started by handleRetry('workflowFile') after a conflict, with
\* no further concurrent write, createWorkflowFile reads the file again and
\* sends the sha it has just read; unless a request of the retry fails for a
\* reason of its own the step does not end in 'error', and once the run is
\* past the step it is 'success' and the run goes on with the variables step.
C23_ConflictRetryable ==
    RetryAfterConflict =>
       /\ (orch.i = 1 /\ orch.pc = "exec" /\ cwf.pc \in {"put", "done", "threw"}
             /\ ~orch.failed) =>
             /\ cwf.getStatus \in {200, 404}
             /\ cwf.pc = "put" => cwf.sha = ShaOf(remoteFile)
             /\ cwf.pc # "threw"
       /\ (orch.i = 1 /\ orch.pc = "idle") => orch.failed
       /\ orch.progress.workflowFile = "error" => orch.failed
       /\ orch.i >= 2 => orch.progress.workflowFile = "success"

\* The retry after a conflict has committed the file over the other writer's
\* content and the run is executing the variables step
C23_Witness ==
    /\ RetryAfterConflict /\ ~orch.failed
    /\ orch.i = 2 /\ orch.pc = "exec"
    /\ orch.progress.workflowFile = "success"
    /\ remoteFile = orch.yaml


(***************************************************************************)
(* Properties of the sealing endpoint                                      *)
(***************************************************************************)
\* The request answered has a missing, empty or unusable recipient key
BadKey == enc.key \in {MissingField, EmptyString, NotAString}
             \/ DecodedLength(enc.key) # PublicKeyBytes

\* What holds of a POST on both servers: a bad key gets a non-200 answer
\* without encryptedValue, and a missing or empty field means no sealing
PostRejectsBadKey ==
    (enc.pc = "responded" /\ enc.method = "POST") =>
       /\ BadKey => (enc.response.status # 200 /\ enc.response.encryptedValue = Absent)
       /\ (enc.key \in {MissingField, EmptyString}
             \/ enc.value \in {MissingField, EmptyString}) =>
             (enc.response.sealCalls = 0 /\ enc.response.status = 400)

\* C21 as stated: a bad key is answered with an error that carries no
\* encryptedValue, nothing is sealed when a field is missing or empty, and a
\* request that is not a POST is answered 405 before its body is read.
C21_Stated ==
    /\ PostRejectsBadKey
    /\ (enc.pc = "responded" /\ enc.method # "POST") =>
          (enc.response.status = 405 /\ ~enc.response.bodyRead)

\* C21: a bad key is answered with an error that carries no encryptedValue,
\* nothing is sealed when a field is missing or empty; a request that is not
\* a POST is never sealed and gets no encryptedValue, and on the serverless
\* handler it is answered 405 before its body is read.
C21_BadKeyRejected ==
    /\ PostRejectsBadKey
    /\ (enc.pc = "responded" /\ enc.method # "POST") =>
          /\ enc.response.sealCalls = 0 /\ enc.response.encryptedValue = Absent
          /\ enc.server = "serverless" =>
                (enc.response.status = 405 /\ ~enc.response.bodyRead)

\* A key of the wrong length reached crypto_box_seal and was answered 500
C21_Witness ==
    /\ enc.pc = "responded" /\ enc.method = "POST"
    /\ enc.key \in KeyTexts /\ Len(enc.key) = 3 /\ enc.value = ValueA
    /\ enc.response.status = 500 /\ enc.response.sealCalls = 1


(***************************************************************************)
(* Properties of generateWorkflow                                          *)
(***************************************************************************)
\* C25: the timer fires only on a call still waiting for its response, 30
\* seconds after the call started, and then the call rejects with the timeout
\* error; once the response has arrived or the request has failed the timer
\* is cleared and never fires, so nothing is aborted after completion; and no
\* call waits for its response beyond the deadline.
C25_HardTimeout ==
    /\ gen.timer = "fired" =>
          /\ gen.pc = "rejected" /\ gen.error = "timeout" /\ gen.aborted
          /\ gen.response = Absent
          /\ gen.firedAt = gen.deadline /\ gen.settledAt = gen.firedAt
    /\ gen.aborted => gen.timer = "fired"
    /\ gen.pc \in {"body", "resolved"} => gen.timer = "cleared"
    /\ (gen.pc = "rejected" /\ gen.error # "timeout") => gen.timer = "cleared"
    /\ gen.pc = "fetching" => (gen.timer = "armed" /\ gen.now <= gen.deadline)

\* A call timed out at its deadline
C25_Witness ==
    /\ gen.pc = "rejected" /\ gen.error = "timeout"
    /\ gen.timer = "fired" /\ gen.now = gen.deadline /\ gen.deadline >= TimeoutTicks


(***************************************************************************)
(* Properties of a step with several requests                              *)
(***************************************************************************)
\* C26: while the variables (or secrets) step is marked 'error', so that its
\* Retry is offered, no request issued by the failed run is in flight, and
\* two runs never have requests in flight for the same variable or secret.
C26_RetryAfterQuiescence ==
    /\ par.status = "error" => ParInFlight(par.attempt) = {}
    /\ \A n \in ParItems : \A a, b \in ParAttempts :
          (par.req[n][a] = "flight" /\ par.req[n][b] = "flight") => a = b


(***************************************************************************)
(* Properties of DeploymentWizard                                          *)
(***************************************************************************)
\* C28: whenever handleCommit sends the deployment token to
\* setRepositorySecret for a Vercel or Railway target, the token sent is the
\* value for which the last validation returned 'valid'.
C28_StoredTokenWasValidated ==
    (wiz.commit.pc = "secrets" /\ needsCliValidation) =>
        /\ wiz.lastValidation.outcome = "valid"
        /\ wiz.lastValidation.token = wiz.commit.sentToken

\* C29: whenever handleCommit writes generatedYaml, the YAML was generated
\* for the selected repository and deployment target, and a token validation
\* that the commit relied on was made for the selected target.
C29_CommitMatchesSelection ==
    wiz.commit.pc = "file" =>
        /\ wiz.commit.yaml.repo = wiz.selectedRepo
        /\ wiz.commit.yaml.target = wiz.selectedTarget
        /\ needsCliValidation => wiz.lastValidation.target = wiz.selectedTarget

\* Since CONFIGURE was entered, the wizard has started at most one generation
GenerationOncePerEntry == wiz.step = "CONFIGURE" => wiz.generations <= 1

\* From COMMIT the wizard reaches SUCCESS, or CONFIGURE with isCommitting false
CommitTerminates ==
    (wiz.step = "COMMIT") ~>
        (wiz.step = "SUCCESS" \/ (wiz.step = "CONFIGURE" /\ ~wiz.isCommitting))

\* C30: entering CONFIGURE triggers workflow generation at most once per
\* entry, and the wizard never stays in COMMIT forever: from COMMIT it
\* eventually reaches SUCCESS or returns to CONFIGURE with isCommitting false.
C30_BoundedProgress == []GenerationOncePerEntry /\ CommitTerminates

====
